---- MODULE Spec2Model ----
(***************************************************************************)
(* Model of the request orchestration layer of fgm:                        *)
(*   - src/src/api/cache.rs       two-tier cache (moka + disk files)       *)
(*   - src/src/api/rate_limit.rs  RateLimiter                              *)
(*   - src/src/api/client.rs      FigmaClient::execute_request             *)
(*                                                                         *)
(* Strings are sequences of one-character strings.  Option<T> is a         *)
(* sequence: <<>> is None and <<x>> is Some(x).                            *)
(* Time is counted in ticks, TicksPerSec ticks to the second, so that the  *)
(* truncations to whole seconds in the code are visible.                   *)
(***************************************************************************)
EXTENDS Integers, Sequences, FiniteSets, TLC

VARIABLES
    memory,        \* FigmaCache.memory: key string -> Option<[entry, inserted]>
    disk,          \* files of FigmaCache.disk_path: file name -> Option<content>
    disk_enabled,  \* FigmaCache.disk_enabled
    now,           \* the clock, in ticks
    last,          \* the last cache operation, its arguments and what it returned
    absent,        \* key -> TRUE while never set / not set again since invalidate
    nsets,         \* number of set operations so far
    io_ok,         \* whether reads, writes and deletes in disk_path succeed now
    limiter,       \* the RateLimiter (behind FigmaClient.rate_limiter's Mutex)
    overflow_checks, \* whether the build checks integer overflow (debug profile)
    driver,        \* "api": RateLimiter called directly; "client": by execute_request
    lcall,         \* driver "api": the last call on the RateLimiter and its result
    lock,          \* holder of the tokio Mutex around the RateLimiter, or Free
    pc,            \* caller -> position in execute_request
    resp,          \* caller -> Option<response being handled>
    sleeping,      \* caller -> Option<duration in ms of the sleep it is in / was last in>
    call,          \* caller -> bookkeeping of its current execute_request call
    hashed,        \* the last two calls of CacheKey::hash_node_ids: arguments and results
    fetch,         \* the last call of an endpoint of FigmaClient, running or returned
    task           \* thread -> the cache operation it is in or has returned from

cvars == <<memory, disk, disk_enabled, now, last, absent, nsets, io_ok>>

rvars == <<limiter, overflow_checks, driver, lcall, lock, pc, resp, sleeping, call>>

xvars == <<hashed, fetch, task>>

vars == <<cvars, rvars, xvars>>

None == <<>>
Some(x) == <<x>>

-----------------------------------------------------------------------------
(* Bounds of the model *)

TicksPerSec == 2
MaxSets == 1

(* Program constants *)

MOKA_TTL_SECS == 3600

\* CacheTTL, in seconds
FILE_METADATA == 300
FILE_META_LIGHT == 600
IMAGE_URLS == 1800
VERSIONS == 60
TEAM_DATA == 3600
COMPONENTS == 1800

HourTicks == MOKA_TTL_SECS * TicksPerSec

-----------------------------------------------------------------------------
(* Strings *)

Join(ss, sep) ==
    LET RECURSIVE j(_)
        j(i) == IF i > Len(ss) THEN <<>>
                ELSE IF i = Len(ss) THEN ss[i]
                ELSE ss[i] \o sep \o j(i + 1)
    IN j(1)

\* str::replace(c, "_") for each of ':', '/', '\\', ' '
ReplaceChar(s, c, r) == [i \in 1..Len(s) |-> IF s[i] = c THEN r ELSE s[i]]

\* whether needle occurs in hay (str::contains)
StrContains(hay, needle) ==
    \E i \in 0..(Len(hay) - Len(needle)) :
        SubSeq(hay, i + 1, i + Len(needle)) = needle

-----------------------------------------------------------------------------
(* CacheKey *)

KeyTag(kind) ==
    CASE kind = "File"           -> <<"f","i","l","e">>
      [] kind = "FileMeta"       -> <<"f","i","l","e","_","m","e","t","a">>
      [] kind = "Nodes"          -> <<"n","o","d","e","s">>
      [] kind = "Images"         -> <<"i","m","a","g","e","s">>
      [] kind = "Versions"       -> <<"v","e","r","s","i","o","n","s">>
      [] kind = "TeamProjects"   -> <<"t","e","a","m","_","p","r","o","j","e","c","t","s">>
      [] kind = "ProjectFiles"   -> <<"p","r","o","j","e","c","t","_","f","i","l","e","s">>
      [] kind = "TeamComponents" -> <<"t","e","a","m","_","c","o","m","p","o","n","e","n","t","s">>
      [] kind = "TeamStyles"     -> <<"t","e","a","m","_","s","t","y","l","e","s">>
      [] kind = "Component"      -> <<"c","o","m","p","o","n","e","n","t">>

\* CacheKey::as_string: format!("<tag>:{}", ...) / format!("<tag>:{}:{}", ...)
as_string(key) == KeyTag(key.kind) \o <<":">> \o Join(key.args, <<":">>)

CK(kind, args) == [kind |-> kind, args |-> args]

\* The cache keys the operations are called with.
Keys ==
    { CK("File", << <<"x">> >>),
      CK("File", << <<"m","e","t","a","_","x">> >>),
      CK("FileMeta", << <<"x">> >>) }

\* variant: the space left as it is
disk_key_path_space(key_str) ==
    LET safe_key == ReplaceChar(ReplaceChar(ReplaceChar(
                        key_str, ":", "_"), "/", "_"), "\\", "_")
    IN safe_key \o <<".","j","s","o","n">>

\* FigmaCache::disk_key_path: the file name under disk_path
disk_key_path(key_str) ==
    LET safe_key == ReplaceChar(ReplaceChar(ReplaceChar(ReplaceChar(
                        key_str, ":", "_"), "/", "_"), "\\", "_"), " ", "_")
    IN safe_key \o <<".","j","s","o","n">>

-----------------------------------------------------------------------------
(* CacheKey::hash_node_ids: std DefaultHasher, SipHash-1-3 with keys (0, 0) *)

\* u8 value of a character of a node identifier (str::as_bytes)
CharCode(ch) ==
    CASE ch = "0" -> 48 [] ch = "1" -> 49 [] ch = "2" -> 50 [] ch = "3" -> 51
      [] ch = "4" -> 52 [] ch = "5" -> 53 [] ch = "6" -> 54 [] ch = "7" -> 55
      [] ch = "8" -> 56 [] ch = "9" -> 57 [] ch = ":" -> 58 [] ch = ";" -> 59
      [] ch = "-" -> 45 [] ch = "I" -> 73
      [] ch = "g" -> 103 [] ch = "n" -> 110 [] ch = "p" -> 112

\* A u64 is the sequence of its four 16-bit limbs, least significant first.
\* u64::from_le_bytes of eight bytes
FromLeBytes(bs) ==
    << bs[1] + 256 * bs[2], bs[3] + 256 * bs[4],
       bs[5] + 256 * bs[6], bs[7] + 256 * bs[8] >>

\* x ^ y on 16-bit limbs
Xor16(x, y) ==
    LET RECURSIVE bits(_)
        bits(i) == IF i > 15 THEN 0
                   ELSE 2^i * (((x \div 2^i) + (y \div 2^i)) % 2) + bits(i + 1)
    IN bits(0)

Xor64(a, b) ==
    << Xor16(a[1], b[1]), Xor16(a[2], b[2]), Xor16(a[3], b[3]), Xor16(a[4], b[4]) >>

\* wrapping_add
Add64(a, b) ==
    LET s1 == a[1] + b[1]
        s2 == a[2] + b[2] + (s1 \div 65536)
        s3 == a[3] + b[3] + (s2 \div 65536)
        s4 == a[4] + b[4] + (s3 \div 65536)
    IN << s1 % 65536, s2 % 65536, s3 % 65536, s4 % 65536 >>

\* rotate_left by n bits, 0 <= n < 64
Rotl64(a, n) ==
    LET k == n \div 16
        r == n % 16
        limb(j) == a[((j - 1) % 4) + 1]
    IN [j \in 1..4 |->
           ((limb(j - k + 4) * 2^r) % 65536) + (limb(j - k + 3) \div 2^(16 - r))]
       \o <<>>

\* Sip13Rounds::c_rounds, one round of compress!
SipRound(v) ==
    LET a0 == Add64(v[1], v[2])
        a1 == Xor64(Rotl64(v[2], 13), a0)
        a0r == Rotl64(a0, 32)
        a2 == Add64(v[3], v[4])
        a3 == Xor64(Rotl64(v[4], 16), a2)
        b0 == Add64(a0r, a3)
        b3 == Xor64(Rotl64(a3, 21), b0)
        b2 == Add64(a2, a1)
        b1 == Xor64(Rotl64(a1, 17), b2)
    IN <<b0, b1, Rotl64(b2, 32), b3>>

\* Hasher::reset with k0 = k1 = 0: "somepseu", "dorandom", "lygenera", "tedbytes"
SipInit ==
    << FromLeBytes(<<117, 101, 115, 112, 101, 109, 111, 115>>),
       FromLeBytes(<<109, 111, 100, 110, 97, 114, 111, 100>>),
       FromLeBytes(<<97, 114, 101, 110, 101, 103, 121, 108>>),
       FromLeBytes(<<115, 101, 116, 121, 98, 100, 101, 116>>) >>

\* one eight-byte word of the input absorbed
SipAbsorb(v, m) ==
    LET w == SipRound(<<v[1], v[2], v[3], Xor64(v[4], m)>>)
    IN <<Xor64(w[1], m), w[2], w[3], w[4]>>

\* Hasher::write over the whole input, then Hasher::finish
SipHash13(bytes) ==
    LET n == Len(bytes)
        full == n \div 8
        RECURSIVE blocks(_, _)
        blocks(v, k) ==
            IF k > full THEN v
            ELSE blocks(SipAbsorb(v, FromLeBytes(SubSeq(bytes, 8 * k - 7, 8 * k))),
                        k + 1)
        tail == [i \in 1..8 |->
                    IF i = 8 THEN n % 256
                    ELSE IF 8 * full + i <= n THEN bytes[8 * full + i] ELSE 0] \o <<>>
        v1 == SipAbsorb(blocks(SipInit, 1), FromLeBytes(tail))
        v2 == <<v1[1], v1[2], Xor64(v1[3], FromLeBytes(<<255, 0, 0, 0, 0, 0, 0, 0>>)),
                v1[4]>>
        v3 == SipRound(SipRound(SipRound(v2)))
    IN Xor64(Xor64(v3[1], v3[2]), Xor64(v3[3], v3[4]))

\* usize::to_ne_bytes on a 64-bit little-endian target, for lengths below 2^24
UsizeBytes(n) == [i \in 1..8 |-> IF i <= 3 THEN (n \div 256^(i - 1)) % 256 ELSE 0] \o <<>>

\* <[String] as Hash>::hash: the length prefix, then each string's bytes
\* followed by 0xff (Hasher::write_str)
SliceBytes(ids) ==
    LET RECURSIVE each(_)
        each(i) == IF i > Len(ids) THEN <<>>
                   ELSE [j \in 1..Len(ids[i]) |-> CharCode(ids[i][j])]
                            \o <<255>> \o each(i + 1)
    IN UsizeBytes(Len(ids)) \o each(1)

HexDigits == <<"0", "1", "2", "3", "4", "5", "6", "7", "8", "9",
               "a", "b", "c", "d", "e", "f">>

\* format!("{:x}", u64): lower-case hexadecimal without leading zeros
LowerHex(w) ==
    LET nib(k) == (w[((k - 1) \div 4) + 1] \div 16^((k - 1) % 4)) % 16
        top == IF \E k \in 1..16 : nib(k) # 0
               THEN CHOOSE k \in 1..16 : nib(k) # 0 /\ \A j \in (k + 1)..16 : nib(j) = 0
               ELSE 1
    IN [i \in 1..top |-> HexDigits[nib(top + 1 - i) + 1]] \o <<>>

\* variant: the identifiers hashed as a set, whatever their order
hash_node_ids_unordered(ids) ==
    LET RECURSIVE fold(_)
        fold(i) == IF i > Len(ids) THEN SipHash13(UsizeBytes(Len(ids)))
                   ELSE Xor64(SipHash13(SliceBytes(<<ids[i]>>)), fold(i + 1))
    IN LowerHex(fold(1))

\* CacheKey::hash_node_ids
hash_node_ids(ids) == LowerHex(SipHash13(SliceBytes(ids)))

\* longest list of node identifiers hashed
MaxIds == 2

\* The node identifiers of test_hash_node_ids, and one more
NodeIds == { <<"1", ":", "1">>, <<"1", ":", "2">>, <<"2", ":", "1">> }

\* The lists hash_node_ids is called with
IdLists == UNION { [1..n -> NodeIds] : n \in 0..MaxIds }

\* hash_node_ids of each of these lists (@@ makes it a table computed once)
NodeHash == [ids \in IdLists |-> hash_node_ids(ids)] @@ <<>>

\* <str as Hash>::hash: the bytes followed by 0xff
StrBytes(str) == [j \in 1..Len(str) |-> CharCode(str[j])] \o <<255>>

\* f32::to_bits as the four bytes Hasher::write_u32 feeds, for the scales 1.0
\* (0x3f800000) and 2.0 (0x40000000)
ScaleBytes(scale) == IF scale = 1 THEN <<0, 0, 128, 63>> ELSE <<0, 0, 0, 64>>

\* CacheKey::hash_export_params
hash_export_params(ids, format, scale) ==
    LowerHex(SipHash13(SliceBytes(ids) \o StrBytes(format) \o ScaleBytes(scale)))

-----------------------------------------------------------------------------
(* The keys of the client's endpoints (src/src/api/files.rs, images.rs) *)

\* the node identifiers get_nodes and export_images are called with
FetchIds == << <<"1", ":", "1">> >>

\* the formats export_images is called with
Formats == { <<"p", "n", "g">> }

\* hash_export_params of the identifiers, each format and the scale 2.0
\* (@@ makes it a table computed once)
ExportHash == [f \in Formats |-> hash_export_params(FetchIds, f, 2)] @@ <<>>

\* hash_node_ids(FetchIds) and hash_export_params(FetchIds, "png", 2.0),
\* written out
NodesHash == <<"2", "3", "f", "f", "d", "4", "1", "c", "4", "7", "f", "0", "5", "9", "7", "6">>
ImagesHash == <<"b", "2", "e", "5", "8", "5", "e", "1", "7", "9", "d", "6", "2", "6", "3", "e">>

\* get_file, get_nodes, get_file_meta, get_versions, get_team_projects,
\* get_project_files, get_team_components, get_team_styles, get_component:
\* the key each builds, for the file x, the team t, the project p, the
\* component c
EndpointKey ==
    [ get_file            |-> CK("File", << <<"x">> >>),
      get_nodes           |-> CK("Nodes", << <<"x">>, NodesHash >>),
      get_file_meta       |-> CK("FileMeta", << <<"x">> >>),
      get_versions        |-> CK("Versions", << <<"x">> >>),
      get_team_projects   |-> CK("TeamProjects", << <<"t">> >>),
      get_project_files   |-> CK("ProjectFiles", << <<"p">> >>),
      get_team_components |-> CK("TeamComponents", << <<"t">> >>),
      get_team_styles     |-> CK("TeamStyles", << <<"t">> >>),
      get_component       |-> CK("Component", << <<"c">> >>),
      export_images       |-> CK("Images", << <<"x">>, ImagesHash >>) ]

FetchKeys == { EndpointKey[fn] : fn \in DOMAIN EndpointKey }

\* A key whose identifier holds each of the characters disk_key_path replaces,
\* and a plain one
NameKeys ==
    { CK("File", << <<"a", "/", "b", " ", "c", "\\", "d">> >>),
      CK("File", << <<"x">> >>) }

AllKeys == Keys \cup FetchKeys \cup NameKeys

KeyStrs == { as_string(k) : k \in AllKeys }

DiskNames == { disk_key_path(s) : s \in KeyStrs }

\* as_string and disk_key_path tabulated over the keys of the model
KeyString == [k \in AllKeys |-> as_string(k)] @@ <<>>
DiskPath == [x \in KeyStrs |-> disk_key_path(x)] @@ <<>>

-----------------------------------------------------------------------------
(* serde_json, for the String payloads the cache tests store *)

Quote == "\""
Backslash == "\\"

\* serde_json::to_string(&String): quotes added, '"' and '\' escaped
JsonEscape(v) ==
    LET RECURSIVE esc(_)
        esc(i) == IF i > Len(v) THEN <<>>
                  ELSE IF v[i] \in {Quote, Backslash}
                       THEN <<Backslash, v[i]>> \o esc(i + 1)
                       ELSE <<v[i]>> \o esc(i + 1)
    IN esc(1)

\* variant: the payload written between quotes without escaping
to_string_raw(v) == <<Quote>> \o v \o <<Quote>>

to_string(v) == <<Quote>> \o JsonEscape(v) \o <<Quote>>

\* serde_json::from_str::<String>(..).ok()
from_str(s) ==
    LET RECURSIVE un(_)
        \* the characters from position i up to the closing quote, or "bad"
        un(i) == IF i > Len(s) THEN "bad"
                 ELSE IF s[i] = Quote
                      THEN (IF i = Len(s) THEN <<>> ELSE "bad")
                 ELSE IF s[i] = Backslash
                      THEN (IF i + 1 <= Len(s) /\ s[i + 1] \in {Quote, Backslash}
                            THEN LET r == un(i + 2)
                                 IN IF r = "bad" THEN "bad" ELSE <<s[i + 1]>> \o r
                            ELSE "bad")
                 ELSE LET r == un(i + 1)
                      IN IF r = "bad" THEN "bad" ELSE <<s[i]>> \o r
    IN IF Len(s) >= 2 /\ s[1] = Quote
       THEN LET r == un(2) IN IF r = "bad" THEN None ELSE Some(r)
       ELSE None

\* The payloads the operations are called with.
Values == { <<"v">>, <<Quote>> }

-----------------------------------------------------------------------------
(* CachedEntry *)

\* chrono::Utc::now().timestamp(): whole seconds
timestamp == now \div TicksPerSec

\* variant: a duration rounded up to whole seconds
as_secs_ceil(ttl) == (ttl + TicksPerSec - 1) \div TicksPerSec

\* Duration::as_secs: whole seconds of a duration given in ticks
as_secs(ttl) == ttl \div TicksPerSec

CachedEntry(data, fetched_at, ttl_seconds) ==
    [data |-> data, fetched_at |-> fetched_at, ttl_seconds |-> ttl_seconds]

\* variant: an entry still valid at age = ttl_seconds
is_valid_inclusive(entry) ==
    LET age == timestamp - entry.fetched_at
    IN age <= entry.ttl_seconds

\* CachedEntry::is_valid
is_valid(entry) ==
    LET age == timestamp - entry.fetched_at
    IN age < entry.ttl_seconds

\* serde_json::to_string(&CachedEntry): the object {data, fetched_at, ttl_seconds}
EntryToJson(entry) == <<to_string(entry.data), entry.fetched_at, entry.ttl_seconds>>

\* serde_json::from_str::<CachedEntry>(..).ok()
EntryFromJson(content) ==
    IF Len(content) = 3 /\ from_str(content[1]) # None
    THEN Some(CachedEntry(from_str(content[1])[1], content[2], content[3]))
    ELSE None

-----------------------------------------------------------------------------
(* The in-process tier: moka::sync::Cache built with time_to_live(3600 s) *)

\* Cache::get: an entry older than the global time-to-live is not returned
MokaGet(mem, key_str) ==
    IF mem[key_str] # None /\ now < mem[key_str][1].inserted + HourTicks
    THEN Some(mem[key_str][1].entry)
    ELSE None

\* Cache::insert
MokaInsert(mem, key_str, entry) ==
    [mem EXCEPT ![key_str] = Some([entry |-> entry, inserted |-> now])]

\* Cache::invalidate
MokaInvalidate(mem, key_str) == [mem EXCEPT ![key_str] = None]

\* Cache::invalidate_all
MokaInvalidateAll(mem) == [k \in DOMAIN mem |-> None]

-----------------------------------------------------------------------------
(* The disk tier *)

\* variant: a read that succeeds whatever the state of the file system
read_to_string_always(dsk, path) == dsk[path]

\* fs::read_to_string(..).ok()
read_to_string(dsk, path) == IF io_ok THEN dsk[path] ELSE None

\* FigmaCache::read_disk: nothing when the file cannot be read or decoded
read_disk(dsk, key_str) ==
    LET path == DiskPath[key_str]
        content == read_to_string(dsk, path)
    IN IF content = None THEN None ELSE EntryFromJson(content[1])

\* FigmaCache::write_disk: a failed fs::write is logged and leaves the file
write_disk(dsk, key_str, entry) ==
    IF io_ok
    THEN [dsk EXCEPT ![DiskPath[key_str]] = Some(EntryToJson(entry))]
    ELSE dsk

\* FigmaCache::delete_disk: the result of fs::remove_file is dropped
delete_disk(dsk, key_str) ==
    IF io_ok THEN [dsk EXCEPT ![DiskPath[key_str]] = None] ELSE dsk

\* variant: every file removed, whatever its name
remove_any(dsk, file_key) == IF io_ok THEN [f \in DOMAIN dsk |-> None] ELSE dsk

\* the directory emptied of the files whose name contains file_key
\* (fs::read_dir, name.contains, fs::remove_file)
remove_matching(dsk, file_key) ==
    IF io_ok
    THEN [f \in DOMAIN dsk |-> IF StrContains(f, file_key) THEN None ELSE dsk[f]]
    ELSE dsk

\* variant: the directory left as it is
keep_dir(dsk) == dsk

\* fs::remove_dir_all then fs::create_dir_all
recreate_dir(dsk) == IF io_ok THEN [f \in DOMAIN dsk |-> None] ELSE dsk

\* FigmaCache::count_disk_entries
count_disk_entries(dsk) ==
    IF disk_enabled /\ io_ok
    THEN Cardinality({f \in DOMAIN dsk : dsk[f] # None})
    ELSE 0

-----------------------------------------------------------------------------
(* FigmaCache operations, as functions of the state before the call *)

\* variant: a disk hit returned without being put into the in-process tier
GetOutcome_NoPromote(key) ==
    LET key_str == KeyString[key]
        m == MokaGet(memory, key_str)
        memHit == m # None /\ is_valid(m[1])
        mem1 == IF m # None /\ ~is_valid(m[1])
                THEN MokaInvalidate(memory, key_str) ELSE memory
        d == IF disk_enabled THEN read_disk(disk, key_str) ELSE None
        diskHit == d # None /\ is_valid(d[1])
        expired == (m # None /\ ~is_valid(m[1])) \/ (d # None /\ ~is_valid(d[1]))
    IN IF memHit
       THEN [res |-> from_str(m[1].data), mem |-> memory, dsk |-> disk,
             path |-> "memory", evicted |-> FALSE]
       ELSE IF diskHit
       THEN [res |-> from_str(d[1].data), mem |-> mem1, dsk |-> disk,
             path |-> "disk", evicted |-> m # None]
       ELSE [res |-> None, mem |-> mem1,
             dsk |-> IF d # None THEN delete_disk(disk, key_str) ELSE disk,
             path |-> IF expired THEN "expired" ELSE "miss",
             evicted |-> m # None]

\* variant: an expired in-process entry ends the lookup
GetOutcome_NoFallThrough(key) ==
    LET key_str == KeyString[key]
        m == MokaGet(memory, key_str)
        memHit == m # None /\ is_valid(m[1])
        mem1 == IF m # None /\ ~is_valid(m[1])
                THEN MokaInvalidate(memory, key_str) ELSE memory
        d == IF disk_enabled /\ m = None THEN read_disk(disk, key_str) ELSE None
        diskHit == d # None /\ is_valid(d[1])
        expired == (m # None /\ ~is_valid(m[1])) \/ (d # None /\ ~is_valid(d[1]))
    IN IF memHit
       THEN [res |-> from_str(m[1].data), mem |-> memory, dsk |-> disk,
             path |-> "memory", evicted |-> FALSE]
       ELSE IF diskHit
       THEN [res |-> from_str(d[1].data),
             mem |-> MokaInsert(mem1, key_str, d[1]), dsk |-> disk,
             path |-> "disk", evicted |-> m # None]
       ELSE [res |-> None, mem |-> mem1,
             dsk |-> IF d # None THEN delete_disk(disk, key_str) ELSE disk,
             path |-> IF expired THEN "expired" ELSE "miss",
             evicted |-> m # None]

\* variant: the disk tier consulted before the in-process tier
GetOutcome_DiskFirst(key) ==
    LET key_str == KeyString[key]
        m == MokaGet(memory, key_str)
        memHit == m # None /\ is_valid(m[1])
        mem1 == IF m # None /\ ~is_valid(m[1])
                THEN MokaInvalidate(memory, key_str) ELSE memory
        d == IF disk_enabled THEN read_disk(disk, key_str) ELSE None
        diskHit == d # None /\ is_valid(d[1])
        expired == (m # None /\ ~is_valid(m[1])) \/ (d # None /\ ~is_valid(d[1]))
    IN IF diskHit
       THEN [res |-> from_str(d[1].data),
             mem |-> MokaInsert(mem1, key_str, d[1]), dsk |-> disk,
             path |-> "disk", evicted |-> m # None /\ ~memHit]
       ELSE IF memHit
       THEN [res |-> from_str(m[1].data), mem |-> memory, dsk |-> disk,
             path |-> "memory", evicted |-> FALSE]
       ELSE [res |-> None, mem |-> mem1,
             dsk |-> IF d # None THEN delete_disk(disk, key_str) ELSE disk,
             path |-> IF expired THEN "expired" ELSE "miss",
             evicted |-> m # None]

\* variant: a promoted entry stamped with the time of its promotion
GetOutcome_Restamp(key) ==
    LET key_str == KeyString[key]
        m == MokaGet(memory, key_str)
        memHit == m # None /\ is_valid(m[1])
        mem1 == IF m # None /\ ~is_valid(m[1])
                THEN MokaInvalidate(memory, key_str) ELSE memory
        d == IF disk_enabled THEN read_disk(disk, key_str) ELSE None
        diskHit == d # None /\ is_valid(d[1])
        expired == (m # None /\ ~is_valid(m[1])) \/ (d # None /\ ~is_valid(d[1]))
    IN IF memHit
       THEN [res |-> from_str(m[1].data), mem |-> memory, dsk |-> disk,
             path |-> "memory", evicted |-> FALSE]
       ELSE IF diskHit
       THEN [res |-> from_str(d[1].data),
             mem |-> MokaInsert(mem1, key_str,
                                [d[1] EXCEPT !.fetched_at = timestamp]),
             dsk |-> disk, path |-> "disk", evicted |-> m # None]
       ELSE [res |-> None, mem |-> mem1,
             dsk |-> IF d # None THEN delete_disk(disk, key_str) ELSE disk,
             path |-> IF expired THEN "expired" ELSE "miss",
             evicted |-> m # None]

\* FigmaCache::get: what it returns, the tiers afterwards and the branch taken
GetOutcome(key) ==
    LET key_str == KeyString[key]
        m == MokaGet(memory, key_str)
        memHit == m # None /\ is_valid(m[1])
        mem1 == IF m # None /\ ~is_valid(m[1])
                THEN MokaInvalidate(memory, key_str) ELSE memory
        d == IF disk_enabled THEN read_disk(disk, key_str) ELSE None
        diskHit == d # None /\ is_valid(d[1])
        expired == (m # None /\ ~is_valid(m[1])) \/ (d # None /\ ~is_valid(d[1]))
    IN IF memHit
       THEN [res |-> from_str(m[1].data), mem |-> memory, dsk |-> disk,
             path |-> "memory", evicted |-> FALSE]
       ELSE IF diskHit
       THEN [res |-> from_str(d[1].data),
             mem |-> MokaInsert(mem1, key_str, d[1]), dsk |-> disk,
             path |-> "disk", evicted |-> m # None]
       ELSE [res |-> None, mem |-> mem1,
             dsk |-> IF d # None THEN delete_disk(disk, key_str) ELSE disk,
             path |-> IF expired THEN "expired" ELSE "miss",
             evicted |-> m # None]

\* variant: a disk entry counted whether valid or not
ContainsResult_AnyDisk(key) ==
    LET key_str == KeyString[key]
        m == MokaGet(memory, key_str)
        d == IF disk_enabled THEN read_disk(disk, key_str) ELSE None
    IN IF m # None /\ is_valid(m[1]) THEN TRUE
       ELSE d # None

\* FigmaCache::contains
ContainsResult(key) ==
    LET key_str == KeyString[key]
        m == MokaGet(memory, key_str)
        d == IF disk_enabled THEN read_disk(disk, key_str) ELSE None
    IN IF m # None /\ is_valid(m[1]) THEN TRUE
       ELSE IF d # None THEN is_valid(d[1])
       ELSE FALSE

\* The record kept of the last operation.
\* op, key, val, ttl: the call; at: when; result: what it returned; path: the
\* branch taken; after: for a get, whether the operation before it was a set of
\* the same key, and then val, ttl and setAt are that set's.
\* evicted: for a get, whether it found the in-process entry expired and
\* removed it (line 186).
Op(op, key, val, ttl, result, path) ==
    [op |-> op, key |-> key, val |-> val, ttl |-> ttl, at |-> now,
     result |-> result, path |-> path, after |-> FALSE, setAt |-> 0,
     evicted |-> FALSE]

OpGet(key, result, path) ==
    LET after == last.op = "set" /\ last.key = key
    IN [op |-> "get", key |-> key,
        val |-> IF after THEN last.val ELSE None,
        ttl |-> IF after THEN last.ttl ELSE 0,
        at |-> now, result |-> result, path |-> path,
        after |-> after, setAt |-> IF after THEN last.at ELSE 0,
        evicted |-> FALSE]

NoKey == CK("", <<>>)

\* The instants (in ticks) at which operations happen: the start, less than a
\* second later, one second later, and one hour later.
Instants == { 0, 1, TicksPerSec, HourTicks }

\* The durations (in ticks) set is called with: zero, below one second, one
\* second, and two hours (above moka's time-to-live).
TTLs == { 0, 1, TicksPerSec, 2 * HourTicks }

-----------------------------------------------------------------------------
(* Actions of the cache *)

\* FigmaCache::set
Set(key, value, ttl) ==
    LET key_str == KeyString[key]
        data == to_string(value)
        entry == CachedEntry(data, timestamp, as_secs(ttl))
    IN /\ nsets < MaxSets
       /\ nsets' = nsets + 1
       /\ memory' = MokaInsert(memory, key_str, entry)
       /\ disk' = IF disk_enabled THEN write_disk(disk, key_str, entry) ELSE disk
       /\ absent' = [absent EXCEPT ![key] = FALSE]
       /\ last' = Op("set", key, Some(value), ttl, None, "set")
       /\ UNCHANGED <<disk_enabled, now, io_ok, rvars, xvars>>

\* FigmaCache::get
Get(key) ==
    LET o == GetOutcome(key)
    IN /\ memory' = o.mem
       /\ disk' = o.dsk
       /\ last' = [OpGet(key, o.res, o.path) EXCEPT !.evicted = o.evicted]
       /\ UNCHANGED <<disk_enabled, now, absent, nsets, io_ok, rvars, xvars>>

\* FigmaCache::contains
Contains(key) ==
    /\ last' = Op("contains", key, None, 0,
                  IF ContainsResult(key) THEN Some(TRUE) ELSE None, "contains")
    /\ UNCHANGED <<memory, disk, disk_enabled, now, absent, nsets, io_ok, rvars, xvars>>

\* FigmaCache::invalidate
Invalidate(key) ==
    LET key_str == KeyString[key]
    IN /\ memory' = MokaInvalidate(memory, key_str)
       /\ disk' = IF disk_enabled THEN delete_disk(disk, key_str) ELSE disk
       /\ absent' = [absent EXCEPT ![key] = TRUE]
       /\ last' = Op("invalidate", key, None, 0, None, "invalidate")
       /\ UNCHANGED <<disk_enabled, now, nsets, io_ok, rvars, xvars>>

-----------------------------------------------------------------------------
(* The cache called from several threads *)

\* FigmaCache is Sync (moka's Cache and a PathBuf): its methods take &self and
\* no lock, so calls from different threads interleave between the steps
\* below.  Each step is one call on moka or on the file system.
Threads == { "t1", "t2" }

\* number of operations a thread makes
MaxOps == 2

NoTask ==
    [op |-> "none", stage |-> "idle", key |-> NoKey, entry |-> None,
     result |-> None, n |-> 0, overlap |-> FALSE]

\* the thread is inside an operation
Busy(t) == task[t].stage \notin {"idle", "returned"}

\* thread t enters an operation; overlap records, for it and for every thread
\* inside an operation at that moment, that the two operations run concurrently
StartTask(t, op, stage, key, entry, result) ==
    [u \in Threads |->
        IF u = t
        THEN [op |-> op, stage |-> stage, key |-> key, entry |-> entry,
              result |-> result, n |-> task[t].n + 1,
              overlap |-> \E w \in Threads \ {t} : Busy(w)]
        ELSE IF Busy(u) THEN [task[u] EXCEPT !.overlap = TRUE]
        ELSE task[u]]

ThreadUnchanged ==
    UNCHANGED <<disk_enabled, now, last, absent, nsets, io_ok, rvars, hashed, fetch>>

\* set, lines 206-222: the entry is built and inserted in the in-process tier
SetInsert(t, key, value, ttl) ==
    LET entry == CachedEntry(to_string(value), timestamp, as_secs(ttl))
    IN /\ ~Busy(t) /\ task[t].n < MaxOps
       /\ memory' = MokaInsert(memory, KeyString[key], entry)
       /\ task' = StartTask(t, "set", IF disk_enabled THEN "write" ELSE "returned",
                            key, Some(entry), None)
       /\ UNCHANGED disk
       /\ ThreadUnchanged

\* set, lines 224-227: the entry is written to its file
SetWrite(t) ==
    /\ task[t].op = "set" /\ task[t].stage = "write"
    /\ disk' = write_disk(disk, KeyString[task[t].key], task[t].entry[1])
    /\ task' = [task EXCEPT ![t].stage = "returned"]
    /\ UNCHANGED memory
    /\ ThreadUnchanged

\* get, lines 176-187: the in-process tier is looked up; a valid entry is
\* returned, an expired one removed
GetMemory(t, key) ==
    LET key_str == KeyString[key]
        m == MokaGet(memory, key_str)
        memHit == m # None /\ is_valid(m[1])
    IN /\ ~Busy(t) /\ task[t].n < MaxOps
       /\ memory' = IF m # None /\ ~memHit
                    THEN MokaInvalidate(memory, key_str) ELSE memory
       /\ task' = StartTask(t, "get",
                            IF memHit \/ ~disk_enabled THEN "returned" ELSE "read",
                            key, None,
                            IF memHit THEN from_str(m[1].data) ELSE None)
       /\ UNCHANGED disk
       /\ ThreadUnchanged

\* get, line 191: the file of the key is read
GetRead(t) ==
    LET d == read_disk(disk, KeyString[task[t].key])
    IN /\ task[t].op = "get" /\ task[t].stage = "read"
       /\ task' = [task EXCEPT ![t].entry = d,
                               ![t].stage = IF d = None THEN "returned"
                                            ELSE "promote"]
       /\ UNCHANGED <<memory, disk>>
       /\ ThreadUnchanged

\* get, lines 192-200: a valid entry read from the file is inserted in the
\* in-process tier and returned, an expired one has its file deleted
GetPromote(t) ==
    LET key_str == KeyString[task[t].key]
        entry == task[t].entry[1]
    IN /\ task[t].op = "get" /\ task[t].stage = "promote"
       /\ memory' = IF is_valid(entry)
                    THEN MokaInsert(memory, key_str, entry) ELSE memory
       /\ disk' = IF is_valid(entry) THEN disk ELSE delete_disk(disk, key_str)
       /\ task' = [task EXCEPT ![t].stage = "returned",
                               ![t].result = IF is_valid(entry)
                                             THEN from_str(entry.data) ELSE None]
       /\ ThreadUnchanged

\* invalidate, lines 235-236: the key leaves the in-process tier
InvalidateMemory(t, key) ==
    /\ ~Busy(t) /\ task[t].n < MaxOps
    /\ memory' = MokaInvalidate(memory, KeyString[key])
    /\ task' = StartTask(t, "invalidate",
                         IF disk_enabled THEN "delete" ELSE "returned",
                         key, None, None)
    /\ UNCHANGED disk
    /\ ThreadUnchanged

\* invalidate, lines 238-240: the file of the key is deleted
InvalidateDisk(t) ==
    /\ task[t].op = "invalidate" /\ task[t].stage = "delete"
    /\ disk' = delete_disk(disk, KeyString[task[t].key])
    /\ task' = [task EXCEPT ![t].stage = "returned"]
    /\ UNCHANGED memory
    /\ ThreadUnchanged

\* The identifiers invalidate_file is called with
FileIds == { <<"x">>, <<"m","e","t","a","_","x">> }

\* FigmaCache::invalidate_file
InvalidateFile(file_key) ==
    /\ memory' = MokaInvalidateAll(memory)
    /\ disk' = IF disk_enabled THEN remove_matching(disk, file_key) ELSE disk
    /\ last' = Op("invalidate_file", CK("", <<file_key>>), None, 0, None,
                  "invalidate_file")
    /\ UNCHANGED <<disk_enabled, now, absent, nsets, io_ok, rvars, xvars>>

\* FigmaCache::clear
Clear ==
    /\ memory' = MokaInvalidateAll(memory)
    /\ disk' = IF disk_enabled THEN recreate_dir(disk) ELSE disk
    /\ absent' = IF disk_enabled /\ ~io_ok THEN absent ELSE [k \in Keys |-> TRUE]
    /\ last' = Op("clear", NoKey, None, 0, None, "clear")
    /\ UNCHANGED <<disk_enabled, now, nsets, io_ok, rvars, xvars>>

\* FigmaCache::stats: the number of disk entries it reports
Stats ==
    /\ last' = Op("stats", NoKey, None, 0, Some(count_disk_entries(disk)), "stats")
    /\ UNCHANGED <<memory, disk, disk_enabled, now, absent, nsets, io_ok, rvars, xvars>>

\* The file system starts or stops failing (directory unreadable, disk full).
IoFault ==
    /\ disk_enabled
    /\ io_ok' = ~io_ok
    /\ last' = Op("io_fault", NoKey, None, 0, None, "io_fault")
    /\ UNCHANGED <<memory, disk, disk_enabled, now, absent, nsets, rvars, xvars>>

\* What a damaged file may hold: nothing that decodes as a CachedEntry, or an
\* entry whose data does not decode as the type get asks for.
Damaged ==
    { <<>>, EntryToJson(CachedEntry(<<"v">>, 0, MOKA_TTL_SECS)) }

\* A file of the cache directory is damaged from outside the process.
Corrupt(f, content) ==
    /\ disk_enabled
    /\ disk[f] # None
    /\ disk' = [disk EXCEPT ![f] = Some(content)]
    /\ last' = Op("corrupt", NoKey, None, 0, None, "corrupt")
    /\ UNCHANGED <<memory, disk_enabled, now, absent, nsets, io_ok, rvars, xvars>>

\* Another fgm process that shares the cache directory sets a key: its
\* write_disk replaces the file; this process's in-process tier is not touched.
OtherProcessSet(key, value, ttl) ==
    LET entry == CachedEntry(to_string(value), timestamp, as_secs(ttl))
    IN /\ disk_enabled
       /\ disk' = write_disk(disk, KeyString[key], entry)
       /\ last' = Op("other_set", key, Some(value), ttl, None, "other_set")
       /\ UNCHANGED <<memory, disk_enabled, now, absent, nsets, io_ok, rvars, xvars>>

\* A new CLI invocation: FigmaCache::new on the same directory.  The in-process
\* tier starts empty, the files stay.
NewProcess ==
    /\ memory' = [k \in KeyStrs |-> None]
    /\ last' = Op("new", NoKey, None, 0, None, "new")
    /\ UNCHANGED <<disk, disk_enabled, now, absent, nsets, io_ok, rvars, xvars>>

\* Time passes, up to a later one of the instants.
Tick ==
    \E t \in Instants :
        /\ t > now
        /\ now' = t
        /\ UNCHANGED <<memory, disk, disk_enabled, last, absent, nsets, io_ok, rvars, xvars>>

-----------------------------------------------------------------------------
(* RateLimiter (src/src/api/rate_limit.rs) *)

Min(a, b) == IF a <= b THEN a ELSE b

U64_BITS == 64
TOO_MANY_REQUESTS == 429
THROTTLE_BELOW == 10
PROACTIVE_DELAY_MS == 500
DEFAULT_MAX_RETRIES == 5
DEFAULT_BASE_DELAY_MS == 1000
DEFAULT_MAX_DELAY_MS == 120000

\* rand::random::<f64>() is one of 0/RandDen .. (RandDen-1)/RandDen
RandDen == 4

RateLimiter(max_retries, base_delay_ms, max_delay_ms) ==
    [retry_count |-> 0, max_retries |-> max_retries,
     base_delay_ms |-> base_delay_ms, max_delay_ms |-> max_delay_ms,
     remaining |-> None, retry_after |-> None]

\* RateLimiter::default / RateLimiter::new
RateLimiter_new ==
    RateLimiter(DEFAULT_MAX_RETRIES, DEFAULT_BASE_DELAY_MS, DEFAULT_MAX_DELAY_MS)

\* RateLimiter::with_config
with_config(max_retries, base_delay_ms, max_delay_ms) ==
    RateLimiter(max_retries, base_delay_ms, max_delay_ms)

Digits == <<"0", "1", "2", "3", "4", "5", "6", "7", "8", "9">>

\* str::parse::<u32>() / ::<u64>() of a header value, .ok()
ParseUInt(text) ==
    LET digit(ch) == CHOOSE d \in 1..10 : Digits[d] = ch
        RECURSIVE val(_)
        val(n) == IF n = 0 THEN 0 ELSE 10 * val(n - 1) + (digit(text[n]) - 1)
    IN IF Len(text) = 0 \/ \E i \in 1..Len(text) : \A d \in 1..10 : Digits[d] # text[i]
       THEN None
       ELSE Some(val(Len(text)))

\* headers().get(name).and_then(to_str).and_then(parse)
HeaderValue(hdr) == IF hdr = None THEN None ELSE ParseUInt(hdr[1])

\* variant: a header that is absent or unparsable leaves the earlier value
parse_headers_keep(l, response) ==
    [l EXCEPT !.remaining = IF HeaderValue(response.remaining) = None
                            THEN l.remaining
                            ELSE HeaderValue(response.remaining),
              !.retry_after = IF HeaderValue(response.retry_after) = None
                              THEN l.retry_after
                              ELSE HeaderValue(response.retry_after)]

\* RateLimiter::parse_headers: the limiter afterwards
parse_headers(l, response) ==
    [l EXCEPT !.remaining = HeaderValue(response.remaining),
              !.retry_after = HeaderValue(response.retry_after)]

\* RateLimiter::parse_headers: the RateLimitInfo returned
RateLimitInfo(l, response) ==
    [remaining |-> parse_headers(l, response).remaining,
     retry_after |-> parse_headers(l, response).retry_after,
     is_rate_limited |-> response.status = TOO_MANY_REQUESTS]

\* variant: the threshold itself counted as low
should_throttle_inclusive(l) ==
    l.remaining # None /\ l.remaining[1] <= THROTTLE_BELOW

\* RateLimiter::should_throttle
should_throttle(l) == l.remaining # None /\ l.remaining[1] < THROTTLE_BELOW

\* v * 2^n in u64 with saturation.  A value of 2^30 or more (saturated or not)
\* is represented by 2^30: it is only ever compared with max_delay_ms, which is
\* below 2^30 in every configuration of the model.
ShiftSat(v, n) ==
    LET RECURSIVE sh(_, _)
        sh(x, k) == IF k = 0 \/ x >= 2^30 THEN Min(x, 2^30) ELSE sh(2 * x, k - 1)
    IN sh(v, n)

\* 2u64.pow(retry_count) overflows u64 from retry_count = 64 on
PowOverflows(l) == l.retry_count >= U64_BITS

\* base_delay_ms.saturating_mul(2u64.pow(retry_count)), where the power has
\* wrapped to 0 if it overflowed (build without overflow checks)
exp_delay(l) ==
    IF PowOverflows(l) THEN 0 ELSE ShiftSat(l.base_delay_ms, l.retry_count)

capped_delay(l) == Min(exp_delay(l), l.max_delay_ms)

\* (rand * 0.25 * capped_delay as f64) as u64, rand = k / RandDen
jitter(l, k) == (k * capped_delay(l)) \div (4 * RandDen)

\* variant: the computed delay even when the server suggested one
calculate_delay_computed(l, k, checks) ==
    IF PowOverflows(l) /\ checks
    THEN [panic |-> TRUE, ms |-> 0]
    ELSE [panic |-> FALSE, ms |-> capped_delay(l) + jitter(l, k)]

\* RateLimiter::calculate_delay, in milliseconds; panics when the power
\* overflows in a build with overflow checks
calculate_delay(l, k, checks) ==
    IF l.retry_after # None
    THEN [panic |-> FALSE, ms |-> 1000 * l.retry_after[1]]
    ELSE IF PowOverflows(l) /\ checks
    THEN [panic |-> TRUE, ms |-> 0]
    ELSE [panic |-> FALSE, ms |-> capped_delay(l) + jitter(l, k)]

\* variant: one more retry than max_retries
will_retry_late(l) == ~(l.retry_count > l.max_retries)

\* RateLimiter::wait_and_retry: whether it retries
will_retry(l) == ~(l.retry_count >= l.max_retries)

\* variant: a retry that is not counted
after_retry_stuck(l) == l

\* RateLimiter::wait_and_retry: the limiter after the sleep
after_retry(l) == [l EXCEPT !.retry_count = l.retry_count + 1]

\* variant: a reset that keeps the retry count
reset_keep_count(l) == [l EXCEPT !.retry_after = None]

\* RateLimiter::reset
reset(l) == [l EXCEPT !.retry_count = 0, !.retry_after = None]

-----------------------------------------------------------------------------
(* Responses of the server *)

\* response.text(): the body the server sends with a status
BodyOf(status) ==
    CASE status = 200 -> <<"{", "}">>
      [] status = 404 -> <<"N", "o", "t", " ", "f", "o", "u", "n", "d">>
      [] OTHER -> <<>>

Response(status, remaining, retry_after) ==
    [status |-> status, remaining |-> remaining, retry_after |-> retry_after,
     body |-> BodyOf(status)]

\* X-RateLimit-Remaining: absent, below the mark, at the mark, not a number
RemainingHeaders == { None, Some(<<"9">>), Some(<<"1", "0">>), Some(<<"x">>) }

\* Retry-After: absent, or 2 seconds
RetryAfterHeaders == { None, Some(<<"2">>) }

Statuses == { 200, 404, TOO_MANY_REQUESTS }

\* the responses handed to parse_headers directly
Responses ==
    { Response(st, rem, ra) :
        st \in Statuses, rem \in RemainingHeaders, ra \in RetryAfterHeaders }

\* the responses the server gives to execute_request
ServerResponses ==
    { Response(200, None, None),
      Response(404, Some(<<"9">>), None),
      Response(TOO_MANY_REQUESTS, None, None),
      Response(TOO_MANY_REQUESTS, Some(<<"9">>), Some(<<"2">>)) }

-----------------------------------------------------------------------------
(* The RateLimiter called directly through its public functions *)

Free == "free"
Callers == { "c1", "c2" }

\* The configurations the limiter is built with: the default, the one of
\* test_max_delay_cap, one with a small delay range, and one whose retry budget
\* reaches past the width of u64.
Configs ==
    { RateLimiter_new,
      with_config(10, 1000, 5000),
      with_config(3, 3, 20),
      with_config(U64_BITS + 1, 1000, 120000) }

LCall(fn, before, result, slept) ==
    [fn |-> fn, before |-> before, result |-> result, slept |-> slept]

NoCall(l) == LCall("new", l, None, None)

ApiUnchanged ==
    UNCHANGED <<cvars, xvars, overflow_checks, driver, lock, pc, resp, sleeping, call>>

ApiParseHeaders(r) ==
    /\ driver = "api"
    /\ limiter' = parse_headers(limiter, r)
    /\ lcall' = LCall("parse_headers", limiter, Some(RateLimitInfo(limiter, r)), None)
    /\ ApiUnchanged

ApiCalculateDelay(k) ==
    /\ driver = "api"
    /\ lcall' = LCall("calculate_delay", limiter,
                      Some(calculate_delay(limiter, k, overflow_checks)), None)
    /\ UNCHANGED limiter
    /\ ApiUnchanged

\* wait_and_retry from start to return (the sleep included)
ApiWaitAndRetry(k) ==
    LET d == calculate_delay(limiter, k, overflow_checks)
    IN /\ driver = "api"
       /\ IF ~will_retry(limiter)
          THEN /\ lcall' = LCall("wait_and_retry", limiter, Some(FALSE), None)
               /\ UNCHANGED limiter
          ELSE IF d.panic
          THEN /\ lcall' = LCall("wait_and_retry", limiter, Some("panic"), None)
               /\ UNCHANGED limiter
          ELSE /\ lcall' = LCall("wait_and_retry", limiter, Some(TRUE), Some(d.ms))
               /\ limiter' = after_retry(limiter)
       /\ ApiUnchanged

ApiReset ==
    /\ driver = "api"
    /\ limiter' = reset(limiter)
    /\ lcall' = LCall("reset", limiter, None, None)
    /\ ApiUnchanged

-----------------------------------------------------------------------------
(* FigmaClient::execute_request (src/src/api/client.rs), one process per caller *)

\* Bookkeeping of a caller's execute_request calls: calls begun; in the current
\* call the requests sent, the retries granted, the retry count found at its
\* start, the Retry-After, the status and the body of the response being
\* handled; how the last finished call ended; how the call before it ended.
CallRec(n, sends, retries, start, ra, status, outcome) ==
    [n |-> n, sends |-> sends, retries |-> retries, start |-> start,
     ra |-> ra, status |-> status,
     body |-> IF status = None THEN None ELSE Some(BodyOf(status[1])),
     outcome |-> outcome, prev |-> "none"]

\* calls of execute_request begun by all callers together, and requests sent
\* within one call
MaxCalls == 2
MaxSends == 7

RECURSIVE SumCalls(_)
SumCalls(cs) ==
    IF cs = {} THEN 0
    ELSE LET c == CHOOSE x \in cs : TRUE IN call[c].n + SumCalls(cs \ {c})

ClientUnchanged == UNCHANGED <<cvars, xvars, overflow_checks, driver, lcall>>

\* the caller enters execute_request
Begin(c) ==
    /\ driver = "client"
    /\ pc[c] = "idle"
    /\ SumCalls(Callers) < MaxCalls
    /\ pc' = [pc EXCEPT ![c] = "throttle"]
    /\ call' = [call EXCEPT ![c] =
                  [CallRec(call[c].n + 1, 0, 0, limiter.retry_count, None, None,
                           "running") EXCEPT !.prev = call[c].outcome]]
    /\ UNCHANGED <<limiter, lock, resp, sleeping>>
    /\ ClientUnchanged

\* variant: the guard kept alive over the send
LockHeldDuringSend(c) == c

\* the lock while the request is in flight: the guard of lines 100-103 is gone
LockDuringSend(c) == Free

\* variant: the check made on the first attempt only, a retry sent at once
Throttle_FirstAttemptOnly(c) ==
    /\ driver = "client"
    /\ pc[c] = "throttle"
    /\ lock = Free
    /\ call[c].sends < MaxSends
    /\ IF should_throttle(limiter) /\ call[c].retries = 0
       THEN /\ lock' = c
            /\ pc' = [pc EXCEPT ![c] = "psleep"]
            /\ sleeping' = [sleeping EXCEPT ![c] = Some(PROACTIVE_DELAY_MS)]
            /\ UNCHANGED call
       ELSE /\ lock' = LockDuringSend(c)
            /\ pc' = [pc EXCEPT ![c] = "inflight"]
            /\ call' = [call EXCEPT ![c].sends = @ + 1]
            /\ UNCHANGED sleeping
    /\ UNCHANGED <<limiter, resp>>
    /\ ClientUnchanged

\* lines 99-103: lock, proactive_delay; the sleep is awaited with the guard alive
Throttle(c) ==
    /\ driver = "client"
    /\ pc[c] = "throttle"
    /\ lock = Free
    /\ call[c].sends < MaxSends
    /\ IF should_throttle(limiter)
       THEN /\ lock' = c
            /\ pc' = [pc EXCEPT ![c] = "psleep"]
            /\ sleeping' = [sleeping EXCEPT ![c] = Some(PROACTIVE_DELAY_MS)]
            /\ UNCHANGED call
       ELSE /\ lock' = LockDuringSend(c)
            /\ pc' = [pc EXCEPT ![c] = "inflight"]
            /\ call' = [call EXCEPT ![c].sends = @ + 1]
            /\ UNCHANGED sleeping
    /\ UNCHANGED <<limiter, resp>>
    /\ ClientUnchanged

\* the proactive sleep ends, the guard is dropped, the request is sent (line 106)
ThrottleDone(c) ==
    /\ driver = "client"
    /\ pc[c] = "psleep"
    /\ lock' = LockDuringSend(c)
    /\ pc' = [pc EXCEPT ![c] = "inflight"]
    /\ call' = [call EXCEPT ![c].sends = @ + 1]
    /\ sleeping' = [sleeping EXCEPT ![c] = None]
    /\ UNCHANGED <<limiter, resp>>
    /\ ClientUnchanged

\* line 106: the response arrives
Receive(c, r) ==
    /\ driver = "client"
    /\ pc[c] = "inflight"
    /\ pc' = [pc EXCEPT ![c] = "parse"]
    /\ resp' = [resp EXCEPT ![c] = Some(r)]
    /\ UNCHANGED <<limiter, lock, sleeping, call>>
    /\ ClientUnchanged

\* variant: a failed send treated as the end of a rate limit episode
SendFails_Resets(c) ==
    /\ driver = "client"
    /\ pc[c] = "inflight"
    /\ pc' = [pc EXCEPT ![c] = "idle"]
    /\ call' = [call EXCEPT ![c].outcome = "transport_error"]
    /\ limiter' = reset(limiter)
    /\ UNCHANGED <<lock, resp, sleeping>>
    /\ ClientUnchanged

\* line 106: send fails, `?` returns the error
SendFails(c) ==
    /\ driver = "client"
    /\ pc[c] = "inflight"
    /\ pc' = [pc EXCEPT ![c] = "idle"]
    /\ call' = [call EXCEPT ![c].outcome = "transport_error"]
    /\ UNCHANGED <<limiter, lock, resp, sleeping>>
    /\ ClientUnchanged

\* lines 109-115: lock, parse_headers, unlock; then the status decides
ParseHeaders(c) ==
    /\ driver = "client"
    /\ pc[c] = "parse"
    /\ lock = Free
    /\ limiter' = parse_headers(limiter, resp[c][1])
    /\ pc' = [pc EXCEPT ![c] =
                IF resp[c][1].status = TOO_MANY_REQUESTS THEN "retry" ELSE "reset"]
    /\ call' = [call EXCEPT ![c].ra = HeaderValue(resp[c][1].retry_after),
                            ![c].status = Some(resp[c][1].status),
                            ![c].body = Some(resp[c][1].body)]
    /\ resp' = [resp EXCEPT ![c] = None]
    /\ UNCHANGED <<lock, sleeping>>
    /\ ClientUnchanged

\* variant: the guard dropped before the backoff sleep
WaitAndRetry_Unlocked(c, k) ==
    LET d == calculate_delay(limiter, k, overflow_checks)
    IN /\ driver = "client"
       /\ pc[c] = "retry"
       /\ lock = Free
       /\ ~d.panic
       /\ IF will_retry(limiter)
          THEN /\ pc' = [pc EXCEPT ![c] = "bsleep"]
               /\ sleeping' = [sleeping EXCEPT ![c] = Some(d.ms)]
               /\ UNCHANGED <<call, lock>>
          ELSE /\ pc' = [pc EXCEPT ![c] = "idle"]
               /\ call' = [call EXCEPT ![c].outcome = "exhausted"]
               /\ UNCHANGED <<lock, sleeping>>
       /\ UNCHANGED <<limiter, resp>>
       /\ ClientUnchanged

\* lines 116-127: lock, wait_and_retry up to its sleep, or give up and bail
WaitAndRetry(c, k) ==
    LET d == calculate_delay(limiter, k, overflow_checks)
    IN /\ driver = "client"
       /\ pc[c] = "retry"
       /\ lock = Free
       /\ ~d.panic
       /\ IF will_retry(limiter)
          THEN /\ lock' = c
               /\ pc' = [pc EXCEPT ![c] = "bsleep"]
               /\ sleeping' = [sleeping EXCEPT ![c] = Some(d.ms)]
               /\ UNCHANGED call
          ELSE /\ pc' = [pc EXCEPT ![c] = "idle"]
               /\ call' = [call EXCEPT ![c].outcome = "exhausted"]
               /\ UNCHANGED <<lock, sleeping>>
       /\ UNCHANGED <<limiter, resp>>
       /\ ClientUnchanged

\* variant: the guard still alive when the loop continues
RetryDone_KeepLock(c) ==
    /\ driver = "client"
    /\ pc[c] = "bsleep"
    /\ limiter' = after_retry(limiter)
    /\ pc' = [pc EXCEPT ![c] = "throttle"]
    /\ call' = [call EXCEPT ![c].retries = @ + 1]
    /\ sleeping' = [sleeping EXCEPT ![c] = None]
    /\ UNCHANGED <<resp, lock>>
    /\ ClientUnchanged

\* rate_limit.rs lines 135-137, client.rs lines 119-122: the sleep ends, the
\* count goes up, the guard is dropped, the loop continues
RetryDone(c) ==
    /\ driver = "client"
    /\ pc[c] = "bsleep"
    /\ limiter' = after_retry(limiter)
    /\ lock' = Free
    /\ pc' = [pc EXCEPT ![c] = "throttle"]
    /\ call' = [call EXCEPT ![c].retries = @ + 1]
    /\ sleeping' = [sleeping EXCEPT ![c] = None]
    /\ UNCHANGED resp
    /\ ClientUnchanged

\* lines 130-136: lock, reset, unlock, return the response
Reset(c) ==
    /\ driver = "client"
    /\ pc[c] = "reset"
    /\ lock = Free
    /\ limiter' = reset(limiter)
    /\ pc' = [pc EXCEPT ![c] = "idle"]
    /\ call' = [call EXCEPT ![c].outcome = "response"]
    /\ UNCHANGED <<lock, resp, sleeping>>
    /\ ClientUnchanged

-----------------------------------------------------------------------------
(* FigmaClient::get_json (src/src/api/client.rs) *)

\* variant: every status taken for a success
is_success_any(status) == TRUE

\* StatusCode::is_success
is_success(status) == status \in 200..299

\* What get_json returns once its execute_request call of caller c has ended:
\* the error of execute_request, or an "API error" with the status and the
\* body of a response that is not a success, or the error of response.json()
\* on a body that does not decode, or the decoded body.
get_json(c) ==
    IF call[c].outcome # "response"
    THEN [ok |-> FALSE, error |-> <<call[c].outcome>>]
    ELSE IF ~is_success(call[c].status[1])
    THEN [ok |-> FALSE,
          error |-> <<"API error", call[c].status[1], call[c].body[1]>>]
    ELSE LET decoded == from_str(call[c].body[1])
         IN IF decoded = None
            THEN [ok |-> FALSE, error |-> <<"decode">>]
            ELSE [ok |-> TRUE, value |-> decoded[1]]

-----------------------------------------------------------------------------
(* The endpoints of FigmaClient (src/src/api/files.rs, src/src/api/images.rs) *)

\* Duration::from_secs, in ticks
from_secs(s) == s * TicksPerSec

\* variant: every endpoint storing under the time-to-live of full file metadata
EndpointTTL_Uniform(fn) == from_secs(FILE_METADATA)

\* the CacheTTL constant each endpoint passes to cache().set
EndpointTTL(fn) ==
    CASE fn \in {"get_file", "get_nodes"} -> from_secs(FILE_METADATA)
      [] fn = "get_file_meta" -> from_secs(FILE_META_LIGHT)
      [] fn = "get_versions" -> from_secs(VERSIONS)
      [] fn \in {"get_team_projects", "get_project_files"} -> from_secs(TEAM_DATA)
      [] fn \in {"get_team_components", "get_team_styles", "get_component"}
            -> from_secs(COMPONENTS)
      [] fn = "export_images" -> from_secs(IMAGE_URLS)

Endpoints == DOMAIN EndpointKey

\* The payloads stand for the response structs and are encoded as JSON strings
\* are.  An ImageResponse is the string of its parts: "u" for an entry of the
\* images map, "!" for an err field.
ImageResponses == { <<"u">>, <<>>, <<"u", "!">>, <<"!">> }

\* ImageResponse.images.is_empty()
images_is_empty(img) == \A i \in DOMAIN img : img[i] # "u"

\* ImageResponse.err.is_none()
err_is_none(img) == \A i \in DOMAIN img : img[i] # "!"

Payloads(fn) == IF fn = "export_images" THEN ImageResponses ELSE Values

\* What the server answers to the request of an endpoint: a success with a
\* payload, a success whose body does not decode, a 404, a 429.
FetchResponses(fn) ==
    { [Response(200, None, None) EXCEPT !.body = to_string(v)] : v \in Payloads(fn) }
        \cup { Response(200, None, None), Response(404, None, None),
               Response(TOO_MANY_REQUESTS, None, None) }

\* the caller whose execute_request calls the endpoints make
Fetcher == "c1"

\* calls of endpoints in one behaviour
MaxFetches == 2

\* The record of a call of an endpoint: fn and forced, the call (forced for
\* get_file_cached with force_refresh); stage, how far it is; n0, the
\* execute_request calls of the caller before it; cached, what cache().get
\* returned; ok and result, what the call returned; stored, what it passed to
\* cache().set; count, the calls so far.
FetchRec(fn, forced, stage, cached, count) ==
    [fn |-> fn, forced |-> forced, stage |-> stage, n0 |-> call[Fetcher].n,
     cached |-> cached, ok |-> FALSE, result |-> None, stored |-> None,
     count |-> count]

NoFetch ==
    [fn |-> "none", forced |-> FALSE, stage |-> "none", n0 |-> 0,
     cached |-> None, ok |-> FALSE, result |-> None, stored |-> None,
     count |-> 0]

\* whether the endpoint returns what cache().get gave it (files.rs lines
\* 17-19, images.rs lines 30-35)
serves(fn, cached) ==
    /\ cached # None
    /\ fn = "export_images" => ~images_is_empty(cached[1])

\* variant: every decoded response stored
stores_any(fn, res) == IF res.ok THEN Some(res.value) ELSE None

\* what the endpoint passes to cache().set once get_json has returned res:
\* nothing after an error (`?`), and for export_images nothing unless the
\* response has no err and some image (images.rs line 52)
stores(fn, res) ==
    IF ~res.ok THEN None
    ELSE IF fn = "export_images"
            /\ ~(err_is_none(res.value) /\ ~images_is_empty(res.value))
    THEN None
    ELSE Some(res.value)

FetchUnchanged ==
    UNCHANGED <<disk_enabled, now, last, absent, nsets, io_ok, rvars, hashed, task>>

\* get_file_cached(file_key, true), line 38: cache().invalidate
ForceRefresh ==
    LET key_str == KeyString[EndpointKey["get_file"]]
    IN /\ driver = "client"
       /\ fetch.stage \in {"none", "done"}
       /\ fetch.fn \in {"none", "get_file"}
       /\ fetch.count < MaxFetches
       /\ memory' = MokaInvalidate(memory, key_str)
       /\ disk' = IF disk_enabled THEN delete_disk(disk, key_str) ELSE disk
       /\ fetch' = FetchRec("get_file", TRUE, "lookup", None, fetch.count + 1)
       /\ FetchUnchanged

\* the endpoint up to its first await: cache().get, and the cached value
\* returned or get_json called
LookupIn(fn, forced, count) ==
    LET o == GetOutcome(EndpointKey[fn])
        hit == serves(fn, o.res)
    IN /\ driver = "client"
       /\ hit \/ SumCalls(Callers) < MaxCalls
       /\ memory' = o.mem
       /\ disk' = o.dsk
       /\ fetch' = [FetchRec(fn, forced, IF hit THEN "done" ELSE "request",
                             o.res, count)
                       EXCEPT !.ok = hit,
                              !.result = IF hit THEN o.res ELSE None]
       /\ FetchUnchanged

\* an endpoint is called, for the first time or again
Lookup(fn) ==
    /\ fetch.stage \in {"none", "done"}
    /\ fetch.fn \in {"none", fn}
    /\ fetch.count < MaxFetches
    /\ LookupIn(fn, FALSE, fetch.count + 1)

\* get_file_cached goes on with get_file, line 41
LookupForced ==
    /\ fetch.stage = "lookup"
    /\ LookupIn(fetch.fn, TRUE, fetch.count)

\* get_json calls execute_request, once
Request ==
    /\ fetch.stage = "request"
    /\ call[Fetcher].n = fetch.n0
    /\ Begin(Fetcher)

\* the response to the request of the endpoint arrives
FetchReceive(r) ==
    /\ fetch.stage = "request"
    /\ Receive(Fetcher, r)

\* get_json has returned: the error is passed on, or the payload is stored as
\* the endpoint stores it and returned
Return ==
    LET fn == fetch.fn
        key_str == KeyString[EndpointKey[fn]]
        res == get_json(Fetcher)
        st == stores(fn, res)
        entry == CachedEntry(to_string(st[1]), timestamp, as_secs(EndpointTTL(fn)))
    IN /\ driver = "client"
       /\ fetch.stage = "request"
       /\ call[Fetcher].n = fetch.n0 + 1
       /\ pc[Fetcher] = "idle"
       /\ memory' = IF st = None THEN memory ELSE MokaInsert(memory, key_str, entry)
       /\ disk' = IF st # None /\ disk_enabled
                  THEN write_disk(disk, key_str, entry) ELSE disk
       /\ fetch' = [fetch EXCEPT !.stage = "done", !.ok = res.ok,
                                 !.result = IF res.ok THEN Some(res.value) ELSE None,
                                 !.stored = st]
       /\ FetchUnchanged

-----------------------------------------------------------------------------
(* CacheKey::hash_node_ids called directly *)

\* one call; the last two calls are kept, the latest last
HashNodeIds(ids) ==
    /\ hashed' = Append(IF Len(hashed) = 2 THEN Tail(hashed) ELSE hashed,
                        [ids |-> ids, hash |-> NodeHash[ids]])
    /\ UNCHANGED <<cvars, rvars, fetch, task>>

-----------------------------------------------------------------------------
(* Specifications *)

IdleClient ==
    /\ lock = Free
    /\ pc = [c \in Callers |-> "idle"]
    /\ resp = [c \in Callers |-> None]
    /\ sleeping = [c \in Callers |-> None]
    /\ call = [c \in Callers |-> CallRec(0, 0, 0, 0, None, None, "none")]

\* the rate limiter is not used
IdleRate ==
    /\ limiter = RateLimiter_new
    /\ overflow_checks = FALSE
    /\ driver = "none"
    /\ lcall = NoCall(RateLimiter_new)
    /\ IdleClient

\* hash_node_ids has not been called, no endpoint either
IdleHash == hashed = <<>> /\ fetch = NoFetch /\ task = [t \in Threads |-> NoTask]

\* the cache is not used
IdleCache ==
    /\ memory = [k \in KeyStrs |-> None]
    /\ disk = [f \in DiskNames |-> None]
    /\ disk_enabled = FALSE
    /\ now = 0
    /\ last = Op("new", NoKey, None, 0, None, "new")
    /\ absent = [k \in Keys |-> TRUE]
    /\ nsets = 0
    /\ io_ok = TRUE

\* Either a RateLimiter of some configuration called directly, in a build with
\* or without overflow checks, or the limiter of a FigmaClient
\* (RateLimiter::new) used by the callers of execute_request; its retry count
\* stays far below the width of u64, so the two builds behave alike there.
InitRate ==
    /\ IdleCache
    /\ IdleClient
    /\ \/ /\ driver = "api"
          /\ limiter \in Configs
          /\ overflow_checks \in BOOLEAN
       \/ /\ driver = "client"
          /\ limiter = RateLimiter_new
          /\ overflow_checks = FALSE
    /\ lcall = NoCall(limiter)
    /\ IdleHash

NextRate ==
    \/ \E r \in Responses : ApiParseHeaders(r)
    \/ \E k \in 0..(RandDen - 1) : ApiCalculateDelay(k)
    \/ \E k \in 0..(RandDen - 1) : ApiWaitAndRetry(k)
    \/ ApiReset
    \/ \E c \in Callers : Begin(c)
    \/ \E c \in Callers : Throttle(c)
    \/ \E c \in Callers : ThrottleDone(c)
    \/ \E c \in Callers, r \in ServerResponses : Receive(c, r)
    \/ \E c \in Callers : SendFails(c)
    \/ \E c \in Callers : ParseHeaders(c)
    \/ \E c \in Callers, k \in 0..(RandDen - 1) : WaitAndRetry(c, k)
    \/ \E c \in Callers : RetryDone(c)
    \/ \E c \in Callers : Reset(c)

SpecRate == InitRate /\ [][NextRate]_vars

\* What a caller inside execute_request does next.  The tokio runtime polls a
\* task that can go on, a sleep ends, and the network call returns (with a
\* response or with an error).
Progress(c) ==
    \/ Throttle(c)
    \/ ThrottleDone(c)
    \/ \E r \in ServerResponses : Receive(c, r)
    \/ SendFails(c)
    \/ ParseHeaders(c)
    \/ \E k \in 0..(RandDen - 1) : WaitAndRetry(c, k)
    \/ RetryDone(c)
    \/ Reset(c)

\* execute_request called by the callers of one client (the steps of the
\* client are those of driver "client"), each caller's steps taken in the end
SpecRateFair ==
    /\ InitRate
    /\ [][\E c \in Callers : Begin(c) \/ Progress(c)]_vars
    /\ \A c \in Callers : WF_vars(Progress(c))

InitCache ==
    /\ memory = [k \in KeyStrs |-> None]
    /\ disk = [f \in DiskNames |-> None]
    /\ disk_enabled \in BOOLEAN
    /\ now = 0
    /\ last = Op("new", NoKey, None, 0, None, "new")
    /\ absent = [k \in Keys |-> TRUE]
    /\ nsets = 0
    /\ io_ok = TRUE
    /\ IdleRate
    /\ IdleHash

\* The operations whose outcome depends on time, and the passing of time.
NextCache ==
    \/ \E k \in Keys, v \in Values, t \in TTLs : Set(k, v, t)
    \/ \E k \in Keys : Get(k)
    \/ \E k \in Keys : Contains(k)
    \/ \E k \in Keys : Invalidate(k)
    \/ NewProcess
    \/ Tick

SpecCache == InitCache /\ [][NextCache]_vars

\* The durations set is called with where no time passes: zero and one second.
TTLsNow == { 0, TicksPerSec }

\* Every operation of the cache, at one instant.
NextCacheOps ==
    \/ \E k \in Keys, v \in Values, t \in TTLsNow : Set(k, v, t)
    \/ \E k \in Keys : Get(k)
    \/ \E k \in Keys : Contains(k)
    \/ \E k \in Keys : Invalidate(k)
    \/ \E id \in FileIds : InvalidateFile(id)
    \/ Clear
    \/ Stats
    \/ NewProcess

SpecCacheOps == InitCache /\ [][NextCacheOps]_vars

\* The disk-enabled cache on a file system that may fail and whose files may
\* be damaged, at one instant.
InitCacheIO == InitCache /\ disk_enabled

NextCacheIO ==
    \/ NextCacheOps
    \/ IoFault
    \/ \E f \in DiskNames, content \in Damaged : Corrupt(f, content)

SpecCacheIO == InitCacheIO /\ [][NextCacheIO]_vars

\* The operations at one instant on a cache directory that another fgm process
\* writes to as well.
NextCacheShared ==
    \/ NextCacheOps
    \/ \E k \in Keys, v \in Values : OtherProcessSet(k, v, TicksPerSec)

SpecCacheShared == InitCacheIO /\ [][NextCacheShared]_vars

\* The operations that touch the file of a key, at one instant, on keys whose
\* names need replacing.
NextCacheNames ==
    \/ \E k \in NameKeys, v \in Values, t \in TTLsNow : Set(k, v, t)
    \/ \E k \in NameKeys : Get(k)
    \/ \E k \in NameKeys : Contains(k)
    \/ \E k \in NameKeys : Invalidate(k)
    \/ NewProcess

SpecCacheNames == InitCacheIO /\ [][NextCacheNames]_vars

\* Two threads of one process on a disk-enabled cache whose file system works,
\* at one instant; between operations the process may be started anew.
NextCacheThreads ==
    \/ \E t \in Threads, k \in NameKeys, v \in Values :
           SetInsert(t, k, v, TicksPerSec)
    \/ \E t \in Threads : SetWrite(t)
    \/ \E t \in Threads, k \in NameKeys : GetMemory(t, k)
    \/ \E t \in Threads : GetRead(t)
    \/ \E t \in Threads : GetPromote(t)
    \/ \E t \in Threads, k \in NameKeys : InvalidateMemory(t, k)
    \/ \E t \in Threads : InvalidateDisk(t)
    \/ (\A t \in Threads : ~Busy(t)) /\ NewProcess

SpecCacheThreads == InitCacheIO /\ [][NextCacheThreads]_vars

\* hash_node_ids called on its own
InitHash == IdleCache /\ IdleRate /\ IdleHash

NextHash == \E ids \in IdLists : HashNodeIds(ids)

SpecHash == InitHash /\ [][NextHash]_vars

\* One endpoint called again and again by a client with the default limiter;
\* between the calls, and between the two halves of get_file_cached, an hour
\* passes, the file system fails and recovers, and another fgm process stores
\* an ImageResponse without images.
InitFetch ==
    /\ memory = [k \in KeyStrs |-> None]
    /\ disk = [f \in DiskNames |-> None]
    /\ disk_enabled \in BOOLEAN
    /\ now = 0
    /\ last = Op("new", NoKey, None, 0, None, "new")
    /\ absent = [k \in Keys |-> TRUE]
    /\ nsets = 0
    /\ io_ok = TRUE
    /\ IdleClient
    /\ driver = "client"
    /\ limiter = RateLimiter_new
    /\ overflow_checks = FALSE
    /\ lcall = NoCall(limiter)
    /\ IdleHash

NextFetch ==
    \/ \E fn \in Endpoints : Lookup(fn)
    \/ ForceRefresh
    \/ LookupForced
    \/ Request
    \/ Throttle(Fetcher)
    \/ \E r \in FetchResponses(fetch.fn) : FetchReceive(r)
    \/ SendFails(Fetcher)
    \/ ParseHeaders(Fetcher)
    \/ WaitAndRetry(Fetcher, 0)
    \/ RetryDone(Fetcher)
    \/ Reset(Fetcher)
    \/ Return
    \/ fetch.stage # "request" /\ Tick /\ now' = HourTicks
    \/ fetch.stage # "request" /\ IoFault
    \/ /\ fetch.stage # "request"
       /\ OtherProcessSet(EndpointKey["export_images"], <<>>, from_secs(IMAGE_URLS))

SpecFetch == InitFetch /\ [][NextFetch]_vars

-----------------------------------------------------------------------------
(* Observations used by the properties of the cache *)

\* what the in-process tier answers for the key now
MemEntry(key) == MokaGet(memory, as_string(key))

\* the disk file of the key
DiskFile(key) == disk[disk_key_path(as_string(key))]

\* the last operation was a get of a key whose set came right before it
GetAfterSet == last.op = "get" /\ last.after

\* whole-second clock reading of the get minus that of the set
StampedAge == (last.at \div TicksPerSec) - (last.setAt \div TicksPerSec)

\* ticks elapsed between the set and the get
Elapsed == last.at - last.setAt

-----------------------------------------------------------------------------
(* C1 *)

-----------------------------------------------------------------------------
(* C2 *)

\* C2: get(K) on a key that was never set returns nothing; after invalidate(K)
\* returns K is in neither tier, and get(K) and contains(K) report nothing
\* until K is set again.
C2_AbsentUntilSet ==
    /\ (last.op = "invalidate") =>
           (MemEntry(last.key) = None /\ DiskFile(last.key) = None)
    /\ (last.op \in {"get", "contains"} /\ absent[last.key]) => last.result = None

-----------------------------------------------------------------------------
(* C3 *)

\* C3: when only the disk tier holds a valid entry for K, get(K) returns its
\* value and, once get has returned, the in-process tier holds that entry, so
\* that a get that follows at once is answered from the in-process tier.
C3_Promotion ==
    (last.op = "get" /\ last.path = "disk") =>
        /\ last.result # None
        /\ DiskFile(last.key) # None
        /\ to_string(last.result[1]) = read_disk(disk, as_string(last.key))[1].data
        /\ memory[as_string(last.key)] # None
        /\ memory[as_string(last.key)][1].entry = read_disk(disk, as_string(last.key))[1]
        /\ (last.at = now => GetOutcome(last.key).path = "memory")

C3_Witness ==
    /\ last.op = "get" /\ last.path = "disk"
    /\ ~absent[last.key]
    /\ last.result = Some(<<Quote>>)
    /\ MemEntry(last.key) # None

-----------------------------------------------------------------------------
(* C4 *)

-----------------------------------------------------------------------------
(* Observations used by the properties of the rate limiter *)

\* c is the only caller that has ever entered execute_request
Single(c) == \A d \in Callers \ {c} : call[d].n = 0

\* the last call made on the limiter directly
Called(fn) == driver = "api" /\ lcall.fn = fn

\* min(base_delay * 2^r, max_delay) as arithmetic on unbounded integers
MathCapped(l) == Min(ShiftSat(l.base_delay_ms, l.retry_count), l.max_delay_ms)

-----------------------------------------------------------------------------
(* C5 *)

\* C5: a single caller whose call starts with retry count 0 is granted at most
\* max_retries retries, and when the call fails with the rate limit error
\* (every response was a 429) it has made exactly max_retries retries, i.e.
\* max_retries + 1 requests.
C5_Exhaustion ==
    \A c \in Callers :
        (driver = "client" /\ Single(c) /\ call[c].start = 0) =>
            /\ call[c].retries <= limiter.max_retries
            /\ call[c].outcome = "exhausted" =>
                   /\ call[c].retries = limiter.max_retries
                   /\ call[c].sends = limiter.max_retries + 1

C5_Witness ==
    \E c \in Callers :
        /\ Single(c) /\ call[c].n = 1 /\ call[c].start = 0
        /\ call[c].outcome = "exhausted"
        /\ call[c].retries = DEFAULT_MAX_RETRIES

-----------------------------------------------------------------------------
(* C6 *)

\* C6: the lock is never held while a caller sleeps: whenever a caller is in
\* the proactive delay or in the backoff delay, the lock is free for another
\* caller to take.
C6_NoLockWhileSleeping ==
    \A c \in Callers : pc[c] \in {"psleep", "bsleep"} => lock = Free

-----------------------------------------------------------------------------
(* C7 *)

\* C7: no caller holds the lock while its request is in flight, so two callers
\* can be in flight together; and when a caller's parse_headers step ends, the
\* limiter's remaining and retry_after are those of that caller's response,
\* whatever another caller wrote before.
C7_NoLockInFlight ==
    /\ [](\A c \in Callers : pc[c] = "inflight" => lock # c)
    /\ [][\A c \in Callers :
            (pc[c] = "parse" /\ pc'[c] # "parse") =>
                /\ limiter'.remaining = HeaderValue(resp[c][1].remaining)
                /\ limiter'.retry_after = HeaderValue(resp[c][1].retry_after)]_vars

C7_Witness ==
    /\ \A c \in Callers : pc[c] = "inflight" /\ call[c].sends = 1
    /\ lock = Free
    /\ ~should_throttle(limiter)

-----------------------------------------------------------------------------
(* C8 *)

\* C8: with no server-suggested delay recorded, calculate_delay for retry
\* count r returns capped + jitter with capped = min(base * 2^r, max_delay)
\* and 0 <= jitter <= capped / 4.
C8_Backoff ==
    (Called("calculate_delay") /\ lcall.before.retry_after = None) =>
        /\ ~lcall.result[1].panic
        /\ lcall.result[1].ms - MathCapped(lcall.before)
               \in 0..(MathCapped(lcall.before) \div 4)

-----------------------------------------------------------------------------
(* C9 *)

\* C9: with a server-suggested delay of s seconds recorded, calculate_delay
\* returns exactly s seconds whatever the retry count and the configuration;
\* and a single caller that got a 429 with Retry-After = s sleeps exactly s
\* seconds before its retry.
C9_RetryAfterOverride ==
    /\ (Called("calculate_delay") /\ lcall.before.retry_after # None) =>
           lcall.result = Some([panic |-> FALSE,
                                ms |-> 1000 * lcall.before.retry_after[1]])
    /\ \A c \in Callers :
           (driver = "client" /\ Single(c) /\ pc[c] = "bsleep"
               /\ call[c].ra # None) =>
               sleeping[c] = Some(1000 * call[c].ra[1])

C9_Witness ==
    /\ Called("calculate_delay")
    /\ lcall.before.retry_after = Some(2)
    /\ lcall.before.retry_count >= U64_BITS
    /\ overflow_checks
    /\ lcall.result[1].ms = 2000

-----------------------------------------------------------------------------
(* C10 *)

\* C10: wait_and_retry called with retry_count >= max_retries returns false,
\* does not sleep and leaves every field of the limiter as it was.
C10_NoRetryFrame ==
    (Called("wait_and_retry")
        /\ lcall.before.retry_count >= lcall.before.max_retries) =>
        /\ lcall.result = Some(FALSE)
        /\ lcall.slept = None
        /\ limiter = lcall.before

C10_Witness ==
    /\ Called("wait_and_retry")
    /\ lcall.before.retry_count = lcall.before.max_retries
    /\ lcall.before.remaining # None
    /\ lcall.before.retry_after # None
    /\ lcall.result = Some(FALSE)

-----------------------------------------------------------------------------
(* C11 *)

\* C11: reset sets retry_count to 0 and retry_after to none and leaves
\* remaining and the configuration as they were; execute_request returns a
\* response (any status but 429) only through a step that resets the limiter
\* in this way; and for a single caller the retry count is 0 (and no suggested
\* delay is recorded) whenever execute_request has returned a response.
C11_ResetOnResponse ==
    /\ [](Called("reset") =>
            limiter = [retry_count |-> 0, retry_after |-> None,
                       remaining |-> lcall.before.remaining,
                       max_retries |-> lcall.before.max_retries,
                       base_delay_ms |-> lcall.before.base_delay_ms,
                       max_delay_ms |-> lcall.before.max_delay_ms])
    /\ [](\A c \in Callers :
            (driver = "client" /\ Single(c) /\ call[c].outcome = "response") =>
                /\ call[c].status # Some(TOO_MANY_REQUESTS)
                /\ limiter.retry_count = 0
                /\ limiter.retry_after = None)
    /\ [][\A c \in Callers :
            (call[c].outcome # "response" /\ call'[c].outcome = "response") =>
                /\ call[c].status # Some(TOO_MANY_REQUESTS)
                /\ limiter'.retry_count = 0
                /\ limiter'.retry_after = None
                /\ limiter'.remaining = limiter.remaining
                /\ limiter'.max_retries = limiter.max_retries
                /\ limiter'.base_delay_ms = limiter.base_delay_ms
                /\ limiter'.max_delay_ms = limiter.max_delay_ms]_vars

C11_Witness ==
    \E c \in Callers :
        /\ Single(c) /\ pc[c] = "idle"
        /\ call[c].outcome = "response"
        /\ call[c].status = Some(404)
        /\ call[c].retries > 0
        /\ limiter.retry_count = 0
        /\ limiter.remaining = Some(9)

-----------------------------------------------------------------------------
(* C12 *)

\* C12: once the response to an attempt is not a 429, or the send has failed,
\* the call sends no further request (a request is sent only while the call
\* runs and its last response, if any, was a 429); and for a response that is
\* not a success get_json returns an error with that status and body.
C12_NoRetryOnError ==
    /\ [](\A c \in Callers :
            /\ (call[c].status # None /\ call[c].status # Some(TOO_MANY_REQUESTS))
                   => pc[c] \in {"reset", "idle"}
            /\ call[c].outcome = "transport_error" => pc[c] = "idle"
            /\ (call[c].outcome = "response" /\ call[c].status[1] \notin 200..299)
                   => /\ ~get_json(c).ok
                      /\ get_json(c).error =
                            <<"API error", call[c].status[1],
                              BodyOf(call[c].status[1])>>)
    /\ [][\A c \in Callers :
            call'[c].sends > call[c].sends =>
                /\ call[c].outcome = "running"
                /\ call[c].status \in {None, Some(TOO_MANY_REQUESTS)}]_vars

C12_Witness ==
    \E c \in Callers :
        /\ call[c].outcome = "response"
        /\ call[c].status = Some(404)
        /\ call[c].sends = 1
        /\ get_json(c).error[3] = <<"N", "o", "t", " ", "f", "o", "u", "n", "d">>

-----------------------------------------------------------------------------
(* C13 *)

\* C13: for a single caller, in a call made after a call that failed with
\* retries exhausted, a first response that is a 429 is retried (the call does
\* not end exhausted on it), and the wait before that retry is the base delay
\* plus jitter when the server suggested none.
C13_FreshAfterExhaustion ==
    \A c \in Callers :
        (driver = "client" /\ Single(c) /\ call[c].prev = "exhausted"
            /\ call[c].sends = 1 /\ call[c].status = Some(TOO_MANY_REQUESTS)) =>
            /\ call[c].outcome # "exhausted"
            /\ (pc[c] = "bsleep" /\ call[c].retries = 0 /\ call[c].ra = None) =>
                   sleeping[c][1] \in limiter.base_delay_ms ..
                       (limiter.base_delay_ms + limiter.base_delay_ms \div 4)

-----------------------------------------------------------------------------
(* C14 *)

-----------------------------------------------------------------------------
(* C15 *)

-----------------------------------------------------------------------------
(* C16 *)

\* no entry in the in-process tier and no file in the cache directory
BothTiersEmpty ==
    /\ \A k \in KeyStrs : memory[k] = None
    /\ \A f \in DiskNames : disk[f] = None

-----------------------------------------------------------------------------
(* C17 *)

\* an entry of the key that is still readable and unexpired now, in the
\* in-process tier or (disk enabled) in the file of the key
ValidEntryExists(key) ==
    LET ks == as_string(key)
        f == disk_key_path(ks)
    IN \/ /\ memory[ks] # None
          /\ now < memory[ks][1].inserted + HourTicks
          /\ timestamp - memory[ks][1].entry.fetched_at
                 < memory[ks][1].entry.ttl_seconds
       \/ /\ disk_enabled
          /\ disk[f] # None
          /\ EntryFromJson(disk[f][1]) # None
          /\ timestamp - EntryFromJson(disk[f][1])[1].fetched_at
                 < EntryFromJson(disk[f][1])[1].ttl_seconds

\* C17: contains(K) returns true exactly when a valid entry for K exists in
\* the in-process tier or in the disk tier, and it leaves both tiers as they
\* were (no promotion, no eviction).
C17_Contains ==
    /\ []((last.op = "contains" /\ last.at = now) =>
            (last.result = Some(TRUE) <=> ValidEntryExists(last.key)))
    /\ [][last'.op = "contains" => (memory' = memory /\ disk' = disk)]_vars

C17_Witness ==
    /\ last.op = "contains" /\ last.result = Some(TRUE)
    /\ memory[as_string(last.key)] = None
    /\ DiskFile(last.key) # None
    /\ ~absent[last.key]

-----------------------------------------------------------------------------
(* C18 *)

\* C18: different keys never collide: a get or contains of K2 reports
\* something only if K2 itself was set (and not invalidated since), and the key
\* string and the file name of a key that is set differ from those of every
\* other key.
C18_NoCollision ==
    /\ (last.op \in {"get", "contains"} /\ last.result # None) =>
           ~absent[last.key]
    /\ last.op = "set" =>
           \A k2 \in Keys \ {last.key} :
               /\ as_string(k2) # as_string(last.key)
               /\ disk_key_path(as_string(k2)) # disk_key_path(as_string(last.key))

-----------------------------------------------------------------------------
(* C19 *)

\* C19: the in-process tier is consulted first: a get of a key whose
\* in-process entry is valid returns that entry's value from the in-process
\* branch, which ends before any read of the disk, and changes neither tier,
\* whatever the file of the key holds and whether or not it can be read.
C19_MemoryFirst ==
    [][\A k \in Keys :
        (Get(k) /\ MemEntry(k) # None /\ is_valid(MemEntry(k)[1])) =>
            /\ last'.result = from_str(MemEntry(k)[1].data)
            /\ last'.path = "memory"
            /\ memory' = memory
            /\ disk' = disk]_vars

C19_Witness ==
    /\ disk_enabled
    /\ last.op = "get" /\ last.path = "memory"
    /\ last.result # None
    /\ DiskFile(last.key) # None
    /\ DiskFile(last.key) # Some(EntryToJson(MemEntry(last.key)[1]))

-----------------------------------------------------------------------------
(* C20 *)

\* C20: should_throttle is true exactly when the remaining quota last read from
\* a response is known and below 10, and false when it is unknown (header
\* missing or not a number) or 10 or more; the client sleeps before a send
\* exactly in the first case.
C20_ShouldThrottle ==
    /\ [](/\ limiter.remaining = None => ~should_throttle(limiter)
          /\ limiter.remaining # None =>
                 (should_throttle(limiter) <=> limiter.remaining[1] \in 0..9))
    /\ [][\A r \in Responses :
            (/\ driver = "api"
             /\ lcall'.fn = "parse_headers"
             /\ limiter' = parse_headers(limiter, r)) =>
                (should_throttle(limiter') <=>
                    r.remaining \in { Some(<<"9">>) })]_vars
    /\ [][\A c \in Callers :
            Throttle(c) =>
                ((pc'[c] = "psleep") <=>
                    (limiter.remaining # None /\ limiter.remaining[1] < 10))]_vars

C20_Witness ==
    \E c \in Callers :
        /\ pc[c] = "psleep"
        /\ sleeping[c] = Some(PROACTIVE_DELAY_MS)
        /\ limiter.remaining = Some(9)
        /\ should_throttle(limiter)

-----------------------------------------------------------------------------
(* C21 *)

\* whether b holds the identifiers of a, each as often, possibly in another order
SameIdentifiers(a, b) ==
    /\ Len(a) = Len(b)
    /\ \A x \in NodeIds :
           Cardinality({i \in 1..Len(a) : a[i] = x})
               = Cardinality({i \in 1..Len(b) : b[i] = x})

\* C21: of two calls of hash_node_ids, equal lists give equal hashes, and the
\* same identifiers in a different order give different hashes, so that the
\* Nodes keys made of them for one file differ.
C21_OrderSensitive ==
    \A i, j \in DOMAIN hashed :
        /\ hashed[i].ids = hashed[j].ids => hashed[i].hash = hashed[j].hash
        /\ (hashed[i].ids # hashed[j].ids
                /\ SameIdentifiers(hashed[i].ids, hashed[j].ids)) =>
               /\ hashed[i].hash # hashed[j].hash
               /\ as_string(CK("Nodes", << <<"x">>, hashed[i].hash >>))
                      # as_string(CK("Nodes", << <<"x">>, hashed[j].hash >>))

C21_Witness ==
    /\ Len(hashed) = 2
    /\ hashed[1].ids = << <<"1", ":", "1">>, <<"1", ":", "2">> >>
    /\ hashed[2].ids = << <<"1", ":", "2">>, <<"1", ":", "1">> >>
    /\ hashed[1].hash # hashed[2].hash

-----------------------------------------------------------------------------
(* C22 *)

\* C22: wait_and_retry called with retry_count < max_retries sleeps once,
\* returns "retry" and leaves the limiter as it was but for retry_count, which
\* is one more; and a single caller whose call began with retry count 0 and
\* has had k rate-limited responses in a row (each answered by a granted
\* retry) finds retry_count = k.
C22_WaitAndRetry ==
    /\ (Called("wait_and_retry")
            /\ lcall.before.retry_count < lcall.before.max_retries) =>
           /\ lcall.slept # None
           /\ lcall.result = Some(TRUE)
           /\ limiter = [lcall.before EXCEPT !.retry_count = @ + 1]
    /\ \A c \in Callers :
           (driver = "client" /\ Single(c) /\ call[c].start = 0
                /\ call[c].outcome = "running"
                /\ call[c].retries <= limiter.max_retries) =>
               limiter.retry_count = call[c].retries

-----------------------------------------------------------------------------
(* C23 *)

\* C23: for every retry count and configuration, calculate_delay with no
\* server-suggested delay recorded returns at least min(base_delay, max_delay)
\* and at most max_delay plus a quarter, and the delay without its jitter does
\* not go down when the retry count goes up by one.
C23_DelayBounds ==
    /\ (Called("calculate_delay") /\ lcall.before.retry_after = None) =>
           /\ ~lcall.result[1].panic
           /\ lcall.result[1].ms
                  >= Min(lcall.before.base_delay_ms, lcall.before.max_delay_ms)
           /\ 4 * lcall.result[1].ms <= 5 * lcall.before.max_delay_ms
    /\ (driver = "api" /\ limiter.retry_after = None) =>
           capped_delay(limiter) <= capped_delay(after_retry(limiter))

-----------------------------------------------------------------------------
(* C24 *)

\* C24: validity is the strict comparison now - fetched_at < ttl_seconds on
\* whole seconds: a get that follows the set of its key when the clock
\* readings differ by exactly the TTL returns nothing; a set with a TTL below
\* one second (0 included) stores ttl_seconds = 0, and the get that follows
\* it returns nothing however soon it comes; and whatever a get returns comes
\* from an entry whose ttl_seconds is above 0.
C24_StrictValidity ==
    /\ (GetAfterSet /\ StampedAge = as_secs(last.ttl)) => last.result = None
    /\ (GetAfterSet /\ last.ttl < TicksPerSec) =>
           /\ as_secs(last.ttl) = 0
           /\ last.result = None
    /\ (last.op = "get" /\ last.result # None) =>
           /\ memory[as_string(last.key)] # None
           /\ memory[as_string(last.key)][1].entry.ttl_seconds > 0

C24_Witness ==
    /\ GetAfterSet
    /\ last.ttl > 0 /\ last.ttl < TicksPerSec
    /\ Elapsed = 0
    /\ last.result = None
    /\ disk_enabled

-----------------------------------------------------------------------------
(* C25 *)

\* C25: a get of a key whose in-process entry is expired while the file of the
\* key holds a valid entry removes the in-process entry, reads the disk,
\* returns the value of the disk entry and leaves that entry in the
\* in-process tier; the file stays.
C25_ExpiredMemoryValidDisk ==
    [][\A k \in Keys :
        (/\ Get(k)
         /\ disk_enabled
         /\ MemEntry(k) # None /\ ~is_valid(MemEntry(k)[1])
         /\ read_disk(disk, as_string(k)) # None
         /\ is_valid(read_disk(disk, as_string(k))[1])) =>
            /\ last'.evicted
            /\ last'.path = "disk"
            /\ last'.result = from_str(read_disk(disk, as_string(k))[1].data)
            /\ memory'[as_string(k)] # None
            /\ memory'[as_string(k)][1].entry = read_disk(disk, as_string(k))[1]
            /\ disk' = disk]_vars

C25_Witness ==
    /\ last.op = "get" /\ last.path = "disk" /\ last.evicted
    /\ last.result # None
    /\ MemEntry(last.key) = read_disk(disk, as_string(last.key))
    /\ is_valid(MemEntry(last.key)[1])

-----------------------------------------------------------------------------
(* C26 *)

\* what the headers of the model's responses stand for
HeaderMeans(hdr) ==
    IF hdr = Some(<<"9">>) THEN Some(9)
    ELSE IF hdr = Some(<<"1", "0">>) THEN Some(10)
    ELSE IF hdr = Some(<<"2">>) THEN Some(2)
    ELSE None

\* C26: parse_headers sets remaining and retry_after to what the response
\* carries, to unknown when the header is absent or not a number whatever was
\* recorded before; it reports is_rate_limited exactly for status 429; it
\* leaves retry_count and the configuration alone; and after a response
\* without a usable remaining-quota header should_throttle is false.  In
\* execute_request the 429 branch is taken exactly for status 429.
C26_ParseHeaders ==
    /\ [](driver = "api" =>
            \A r \in Responses :
                LET after == parse_headers(limiter, r)
                    info == RateLimitInfo(limiter, r)
                IN /\ after.remaining = HeaderMeans(r.remaining)
                   /\ after.retry_after = HeaderMeans(r.retry_after)
                   /\ info.remaining = HeaderMeans(r.remaining)
                   /\ info.retry_after = HeaderMeans(r.retry_after)
                   /\ info.is_rate_limited = (r.status = 429)
                   /\ after = [limiter EXCEPT !.remaining = after.remaining,
                                              !.retry_after = after.retry_after]
                   /\ (r.remaining \in {None, Some(<<"x">>)} =>
                           ~should_throttle(after)))
    /\ [][(driver = "api" /\ lcall'.fn = "parse_headers") =>
            /\ lcall'.before = limiter
            /\ \E r \in Responses :
                   /\ limiter' = parse_headers(limiter, r)
                   /\ lcall'.result = Some(RateLimitInfo(limiter, r))
            /\ limiter'.retry_count = limiter.retry_count
            /\ (limiter'.remaining = None => ~should_throttle(limiter'))]_vars
    /\ [][driver = "client" =>
          \A c \in Callers :
            (pc[c] = "parse" /\ pc'[c] # "parse") =>
                /\ limiter'.remaining = HeaderMeans(resp[c][1].remaining)
                /\ limiter'.retry_after = HeaderMeans(resp[c][1].retry_after)
                /\ limiter'.retry_count = limiter.retry_count
                /\ (pc'[c] = "retry") = (resp[c][1].status = 429)
                /\ (resp[c][1].remaining = None => ~should_throttle(limiter'))]_vars

C26_Witness ==
    /\ Called("parse_headers")
    /\ lcall.before.remaining = Some(9)
    /\ lcall.before.retry_after = Some(2)
    /\ lcall.before.retry_count > 0
    /\ limiter.remaining = None
    /\ limiter.retry_after = None
    /\ limiter.retry_count = lcall.before.retry_count
    /\ ~should_throttle(limiter)

-----------------------------------------------------------------------------
(* C27 *)

\* C27: every iteration of the loop of execute_request, the first and each
\* retry, starts at the check of should_throttle; a request is sent only out of
\* that check, at once when should_throttle is false and after a sleep of
\* PROACTIVE_DELAY_MS when it is true, and the sleep is entered only when it is
\* true; so each iteration sends one request, after its check.
C27_ThrottleBeforeSend ==
    /\ [](driver = "client" =>
            \A c \in Callers :
                /\ pc[c] \in {"throttle", "psleep"} =>
                       call[c].sends = call[c].retries
                /\ pc[c] \in {"inflight", "parse", "retry", "bsleep", "reset"} =>
                       call[c].sends = call[c].retries + 1
                /\ pc[c] = "psleep" =>
                       /\ sleeping[c] = Some(PROACTIVE_DELAY_MS)
                       /\ should_throttle(limiter))
    /\ [][\A c \in Callers :
            /\ (pc[c] = "idle" /\ pc'[c] # "idle") => pc'[c] = "throttle"
            /\ (pc[c] = "bsleep" /\ pc'[c] # "bsleep") => pc'[c] = "throttle"
            /\ (pc[c] = "throttle" /\ pc'[c] # "throttle") =>
                   /\ pc'[c] = (IF should_throttle(limiter)
                                THEN "psleep" ELSE "inflight")
                   /\ limiter' = limiter
            /\ (pc'[c] = "inflight" /\ pc[c] # "inflight") =>
                   /\ call'[c].sends = call[c].sends + 1
                   /\ \/ pc[c] = "throttle" /\ ~should_throttle(limiter)
                      \/ /\ pc[c] = "psleep"
                         /\ sleeping[c] = Some(PROACTIVE_DELAY_MS)
                         /\ should_throttle(limiter)
            /\ call'[c].sends # call[c].sends =>
                   \/ pc[c] = "idle" /\ call'[c].sends = 0
                   \/ pc'[c] = "inflight" /\ pc[c] # "inflight"]_vars

\* a retry is held back by the check before its request is sent
C27_Witness ==
    \E c \in Callers :
        /\ pc[c] = "psleep"
        /\ call[c].retries > 0
        /\ call[c].sends = call[c].retries
        /\ sleeping[c] = Some(PROACTIVE_DELAY_MS)
        /\ should_throttle(limiter)

-----------------------------------------------------------------------------
(* C28 *)

\* the time-to-live of each resource, in seconds
ResourceTTL ==
    [ get_file |-> 300, get_nodes |-> 300, get_file_meta |-> 600,
      get_versions |-> 60, get_team_projects |-> 3600,
      get_project_files |-> 3600, get_team_components |-> 1800,
      get_team_styles |-> 1800, get_component |-> 1800 ]

\* the entry of the in-process tier under the key of an endpoint
Held(mem, fn) == mem[KeyString[EndpointKey[fn]]]

\* C28: the key of get_nodes carries hash_node_ids of the identifiers; and
\* a call of a getter that finds its key in the cache returns what it
\* found and makes no execute_request call; one that does not makes exactly
\* one; what it got is stored, under the resource's time-to-live, if and only
\* if the call ended with a response of a success status whose body decodes;
\* a call that failed leaves both tiers as they were; and no request is sent
\* but for a call that missed.
C28_FetchPath ==
    /\ NodesHash = NodeHash[FetchIds]
    /\ [](fetch.stage = "done" /\ fetch.fn \in DOMAIN ResourceTTL =>
            /\ fetch.cached # None =>
                   /\ call[Fetcher].n = fetch.n0
                   /\ fetch.ok /\ fetch.result = fetch.cached
                   /\ fetch.stored = None
            /\ fetch.cached = None =>
                   /\ call[Fetcher].n = fetch.n0 + 1
                   /\ fetch.stored # None <=>
                          /\ call[Fetcher].outcome = "response"
                          /\ call[Fetcher].status[1] \in 200..299
                          /\ from_str(call[Fetcher].body[1]) # None
                   /\ fetch.stored # None =>
                          /\ fetch.stored = from_str(call[Fetcher].body[1])
                          /\ fetch.ok /\ fetch.result = fetch.stored
                   /\ fetch.stored = None => ~fetch.ok)
    /\ [][(fetch.stage = "request" /\ fetch'.stage = "done"
             /\ fetch.fn \in DOMAIN ResourceTTL) =>
            IF fetch'.stored = None
            THEN memory' = memory /\ disk' = disk
            ELSE LET entry == CachedEntry(to_string(fetch'.stored[1]), timestamp,
                                          ResourceTTL[fetch.fn])
                 IN /\ Held(memory', fetch.fn) # None
                    /\ Held(memory', fetch.fn)[1].entry = entry
                    /\ (disk_enabled /\ io_ok) =>
                           read_disk(disk', KeyString[EndpointKey[fetch.fn]])
                               = Some(entry)]_vars
    /\ [][(call'[Fetcher].n # call[Fetcher].n
             \/ call'[Fetcher].sends # call[Fetcher].sends) =>
            /\ fetch.stage = "request"
            /\ ~serves(fetch.fn, fetch.cached)]_vars

\* get_versions called twice: the first call missed, made its request and
\* stored the payload for 60 s; the second found it and made no request
C28_Witness ==
    /\ fetch.stage = "done" /\ fetch.fn = "get_versions" /\ fetch.count = 2
    /\ fetch.cached # None /\ fetch.result = fetch.cached
    /\ call[Fetcher].n = 1 /\ fetch.n0 = 1
    /\ Held(memory, "get_versions")[1].entry.ttl_seconds = 60

-----------------------------------------------------------------------------
(* C29 *)

\* C29: the key of export_images carries hash_export_params of the call; and
\* export_images returns the cached response without a request exactly
\* when the cache gave one whose image map is not empty; a response it fetched
\* is returned to the caller whatever it holds, and is stored (for 1800 s) if
\* and only if it has no err and some image; when it is not stored both tiers
\* stay as they were, and the same call made next sends a request again.
C29_ExportImages ==
    /\ ImagesHash = ExportHash[<<"p", "n", "g">>]
    /\ [](fetch.stage = "done" /\ fetch.fn = "export_images" =>
            /\ call[Fetcher].n = fetch.n0 <=>
                   (fetch.cached # None /\ \E i \in DOMAIN fetch.cached[1] :
                                              fetch.cached[1][i] = "u")
            /\ call[Fetcher].n = fetch.n0 =>
                   fetch.ok /\ fetch.result = fetch.cached /\ fetch.stored = None
            /\ call[Fetcher].n # fetch.n0 =>
                   /\ call[Fetcher].n = fetch.n0 + 1
                   /\ fetch.ok <=>
                          /\ call[Fetcher].outcome = "response"
                          /\ call[Fetcher].status[1] \in 200..299
                          /\ from_str(call[Fetcher].body[1]) # None
                   /\ fetch.ok => fetch.result = from_str(call[Fetcher].body[1])
                   /\ ~fetch.ok => fetch.stored = None
                   /\ fetch.ok =>
                          IF fetch.result[1] = <<"u">>
                          THEN fetch.stored = fetch.result
                          ELSE fetch.stored = None)
    /\ [][(fetch.stage = "request" /\ fetch'.stage = "done"
             /\ fetch.fn = "export_images") =>
            IF fetch'.stored = None
            THEN memory' = memory /\ disk' = disk
            ELSE /\ Held(memory', "export_images") # None
                 /\ Held(memory', "export_images")[1].entry
                        = CachedEntry(to_string(fetch'.stored[1]), timestamp, 1800)]_vars
    /\ [][(/\ fetch.stage = "done" /\ fetch.fn = "export_images"
           /\ call[Fetcher].n # fetch.n0 /\ fetch.stored = None
           /\ fetch'.count = fetch.count + 1) =>
            fetch'.stage = "request"]_vars

\* the call made again after a response with an err was returned and not
\* stored: it is about to send its request
C29_Witness ==
    /\ fetch.fn = "export_images" /\ fetch.count = 2 /\ fetch.stage = "request"
    /\ call[Fetcher].n = 1 /\ fetch.n0 = 1
    /\ call[Fetcher].outcome = "response"
    /\ from_str(call[Fetcher].body[1]) = Some(<<"u", "!">>)
    /\ Held(memory, "export_images") = None

-----------------------------------------------------------------------------
(* C30 *)

\* C30: a call of get_file_cached with force_refresh makes an execute_request
\* call, whatever the tiers held for the file when it was made; and when it
\* returns a File, the cache holds that File, stamped at its return.
C30_ForceRefresh ==
    /\ [](fetch.stage = "done" /\ fetch.forced =>
            /\ call[Fetcher].n = fetch.n0 + 1
            /\ fetch.cached = None)
    /\ [][(fetch.stage = "request" /\ fetch'.stage = "done" /\ fetch.forced
             /\ fetch'.ok) =>
            /\ Held(memory', "get_file") # None
            /\ Held(memory', "get_file")[1].entry
                   = CachedEntry(to_string(fetch'.result[1]), timestamp,
                                 FILE_METADATA)
            /\ fetch'.result = from_str(call[Fetcher].body[1])]_vars

-----------------------------------------------------------------------------
(* C31 *)

\* the key string with ':', '/', '\' and ' ' each replaced by '_', then ".json"
Sanitized(key) ==
    [i \in 1..Len(as_string(key)) |->
        IF as_string(key)[i] \in {":", "/", Backslash, " "}
        THEN "_" ELSE as_string(key)[i]] \o <<".", "j", "s", "o", "n">>

\* what a readable file holds, decoded
Stored(dsk, key) ==
    IF dsk[Sanitized(key)] = None THEN None
    ELSE EntryFromJson(dsk[Sanitized(key)][1])

\* C31: the file of a key is the one with the sanitized name of the key: set
\* writes its entry there and nowhere else, invalidate removes that file and
\* no other, and what get and contains report of a key that is not in the
\* in-process tier is what that file holds.
C31_SanitizedFile ==
    [][\A k \in NameKeys :
        /\ DiskPath[KeyString[k]] = Sanitized(k)
        /\ (last'.op = "set" /\ last'.key = k /\ memory' # memory) =>
               /\ Stored(disk', k)
                     = Some(CachedEntry(to_string(last'.val[1]), timestamp,
                                        as_secs(last'.ttl)))
               /\ \A f \in DiskNames \ {Sanitized(k)} : disk'[f] = disk[f]
        /\ (last'.op = "invalidate" /\ last'.key = k) =>
               /\ disk'[Sanitized(k)] = None
               /\ \A f \in DiskNames \ {Sanitized(k)} : disk'[f] = disk[f]
        /\ (last'.op = "get" /\ last'.key = k /\ memory[as_string(k)] = None) =>
               IF Stored(disk, k) # None /\ is_valid(Stored(disk, k)[1])
               THEN /\ last'.path = "disk"
                    /\ last'.result = from_str(Stored(disk, k)[1].data)
               ELSE /\ last'.result = None
                    /\ disk'[Sanitized(k)] = None
        /\ (last'.op = "contains" /\ last'.key = k /\ memory[as_string(k)] = None) =>
               (last'.result = Some(TRUE)) =
                   (Stored(disk, k) # None /\ is_valid(Stored(disk, k)[1]))]_vars

\* a new process finds on disk, under the sanitized name, what set wrote for
\* the key whose identifier holds '/', ' ' and '\'
C31_Witness ==
    /\ last.op = "get" /\ last.path = "disk" /\ last.result # None
    /\ Len(last.key.args[1]) = 7
    /\ disk[<<"f", "i", "l", "e", "_", "a", "_", "b", "_", "c", "_", "d",
              ".", "j", "s", "o", "n">>] # None

-----------------------------------------------------------------------------
(* C32 *)

\* C32: retry_count never exceeds max_retries; it goes up by one at a time,
\* from below max_retries; in the client the caller that goes through the
\* check of wait_and_retry holds the lock until its increment, and the limiter
\* does not change while it does.
C32_RetryCountBound ==
    /\ [](limiter.retry_count \in 0..limiter.max_retries)
    /\ [](\A c \in Callers :
            pc[c] = "bsleep" =>
                lock = c /\ limiter.retry_count < limiter.max_retries)
    /\ [][/\ limiter'.retry_count > limiter.retry_count =>
                /\ limiter'.retry_count = limiter.retry_count + 1
                /\ limiter.retry_count < limiter.max_retries
          /\ \A c \in Callers :
                (pc[c] = "bsleep" /\ limiter' # limiter) =>
                    /\ pc'[c] = "throttle"
                    /\ limiter' = [limiter EXCEPT !.retry_count = @ + 1]]_vars

\* both callers have been granted retries and the budget is used up
C32_Witness ==
    /\ driver = "client"
    /\ limiter.retry_count = limiter.max_retries
    /\ \A c \in Callers : call[c].retries > 0 /\ call[c].outcome = "running"

-----------------------------------------------------------------------------
(* C33 *)

\* C33: no call of execute_request, whether it runs alone or beside another
\* caller's, sends more than max_retries + 1 requests.
C33_SendsPerCall ==
    \A c \in Callers :
        driver = "client" => call[c].sends <= limiter.max_retries + 1

-----------------------------------------------------------------------------
(* C34 *)

\* C34: a call of execute_request made while no other caller uses the client
\* returns, with a response, a transport error or the rate limit error; and
\* whoever holds the lock is in one of the two sleeps, never waiting for the
\* lock or for the network, so the lock is always given back.
C34_Returns ==
    /\ \A c \in Callers :
           (Single(c) /\ pc[c] # "idle")
               ~> (\/ ~Single(c)
                   \/ /\ pc[c] = "idle"
                      /\ call[c].outcome \in {"response", "transport_error",
                                              "exhausted"})
    /\ [](lock # Free => pc[lock] \in {"psleep", "bsleep"})
    /\ [](\A c \in Callers : call[c].sends <= call[c].retries + 1)

\* a single caller whose first call ended with the rate limit error and whose
\* second call returned a response
C34_Witness ==
    \E c \in Callers :
        /\ Single(c) /\ pc[c] = "idle" /\ call[c].n = 2
        /\ call[c].prev = "exhausted" /\ call[c].outcome = "response"

-----------------------------------------------------------------------------
(* C35 *)

\* C35: every step a caller takes from the start of an attempt to the failure
\* of its send (the proactive delay, the send, the error return) leaves the
\* limiter as it was, and the failure ends the call at once: the caller goes
\* from the send straight back to idle with a transport error, through
\* neither parse_headers, wait_and_retry nor reset.
C35_SendFailure ==
    [][\A c \in Callers :
           /\ (pc[c] \in {"throttle", "psleep", "inflight"} /\ pc'[c] # pc[c]
               /\ pc'[c] \in {"psleep", "inflight", "idle"})
                  => limiter' = limiter
           /\ (pc[c] = "inflight" /\ pc'[c] = "idle")
                  => /\ call'[c].outcome = "transport_error"
                     /\ call'[c].retries = call[c].retries
                     /\ call'[c].sends = call[c].sends
                     /\ lock' = lock
           /\ (pc[c] # "inflight" /\ pc'[c] = "idle" /\ pc[c] # "idle")
                  => call'[c].outcome # "transport_error"]_vars

\* a send that failed on a retry: the limiter still counts the retries made
C35_Witness ==
    \E c \in Callers :
        /\ Single(c) /\ pc[c] = "idle" /\ call[c].n = 1
        /\ call[c].outcome = "transport_error"
        /\ call[c].retries = 2 /\ limiter.retry_count = 2

-----------------------------------------------------------------------------
(* C36 *)

\* C36: on a disk-enabled cache every entry in the in-process tier is also the
\* content of the file of its key, with the same data, fetched_at and
\* ttl_seconds.
C36_MemorySubsetOfDisk ==
    disk_enabled =>
        \A k \in Keys :
            MemEntry(k) # None => Stored(disk, k) = MemEntry(k)

-----------------------------------------------------------------------------
(* C37 *)

\* C37: once two concurrent sets of one key have both returned, the in-process
\* tier and the file of the key hold the same entry.
C37_SameWinner ==
    \A t, u \in Threads :
        (/\ t # u
         /\ task[t].op = "set" /\ task[u].op = "set"
         /\ task[t].key = task[u].key
         /\ task[t].stage = "returned" /\ task[u].stage = "returned"
         /\ task[t].overlap /\ task[u].overlap)
            => /\ MemEntry(task[t].key) # None
               /\ Stored(disk, task[t].key) = MemEntry(task[t].key)

-----------------------------------------------------------------------------
(* C38 *)

\* C38: once an invalidate of a key and a get of the same key that ran
\* concurrently have both returned, neither tier holds an entry of the key.
C38_NoReinsert ==
    \A t, u \in Threads :
        (/\ task[t].op = "invalidate" /\ task[u].op = "get"
         /\ task[t].key = task[u].key
         /\ task[t].stage = "returned" /\ task[u].stage = "returned"
         /\ task[t].overlap /\ task[u].overlap)
            => /\ MemEntry(task[t].key) = None
               /\ Stored(disk, task[t].key) = None

-----------------------------------------------------------------------------
(* C39 *)

\* C39: the entry a disk hit puts into the in-process tier is the entry of the
\* file, with its fetched_at and ttl_seconds; a hit in the in-process tier
\* changes nothing; and a get returns a value only while the clock is before
\* fetched_at + ttl_seconds of the entry it serves.  (A step that leaves a get
\* as the last operation without moving the clock is that get.)
C39_PromotionKeepsAge ==
    [][(last'.op = "get" /\ now' = now) =>
        LET k == last'.key
        IN /\ last'.path = "disk" =>
                  /\ Stored(disk, k) # None
                  /\ memory'[KeyString[k]] =
                         Some([entry |-> Stored(disk, k)[1], inserted |-> now])
                  /\ timestamp < Stored(disk, k)[1].fetched_at
                                     + Stored(disk, k)[1].ttl_seconds
                  /\ disk' = disk
           /\ last'.path = "memory" =>
                  /\ memory' = memory
                  /\ timestamp < MemEntry(k)[1].fetched_at
                                     + MemEntry(k)[1].ttl_seconds
           /\ last'.result # None => last'.path \in {"memory", "disk"}]_vars

\* an entry set at the start with two hours to live, promoted an hour later:
\* it still carries the time of the set
C39_Witness ==
    /\ last.op = "get" /\ last.path = "disk" /\ last.at = HourTicks
    /\ memory[KeyString[last.key]] # None
    /\ memory[KeyString[last.key]][1].inserted = HourTicks
    /\ memory[KeyString[last.key]][1].entry.fetched_at = 0
    /\ memory[KeyString[last.key]][1].entry.ttl_seconds = 2 * MOKA_TTL_SECS

-----------------------------------------------------------------------------
(* C40 *)

\* C40: an invalidate of K leaves the entry of every other key as it was, in
\* the in-process tier and in the file of that key.
C40_OnlyThatKey ==
    [][\A k \in Keys :
        Invalidate(k) =>
            \A k2 \in Keys \ {k} :
                /\ memory'[KeyString[k2]] = memory[KeyString[k2]]
                /\ Stored(disk', k2) = Stored(disk, k2)]_vars

====
